---- MODULE Spec2Model ----
(***************************************************************************)
(* The agent control loop of langgraph-barebones: the LangGraph state      *)
(* graph  __start__ -> agent -> (tools -> agent)* -> __end__  built in     *)
(* buildWorkflow / runApplication, and the interactive conversation loops  *)
(* that drive one graph invocation per user turn.                          *)
(*                                                                         *)
(* Four conversation loops exist in the sources and are all modelled; the  *)
(* variable `variant` says which one a behaviour runs:                     *)
(*   "rethrow"  conversation()          catch: log and throw error          *)
(*   "continue" workflow.ts             catch: log, "Please try again."     *)
(*   "manual"   readline loop           conversationHistory + slice         *)
(*   "pushonly" readline loop           catch as "continue"; the response   *)
(*                                      is displayed and not kept           *)
(*                                                                         *)
(* StateGraph, MessagesAnnotation and ToolNode are imported from           *)
(* @langchain/langgraph; the graph steps below follow what those imports   *)
(* do when the sources call them with their default options.               *)
(*                                                                         *)
(* Spec is the conversation with any of the loops; ReplaySpec runs one     *)
(* turn twice on the same input with a scripted model; TwinSpec runs each  *)
(* turn in the loop of the manual history and then in conversation().      *)
(* AppSpec is the application around the conversation: main, setup and     *)
(* the credential files, in the three stages of the credential handling.   *)
(* FileSpec is the stage of app.ts with one credential file for each      *)
(* provider, and the stand-alone setup script that writes .env.            *)
(***************************************************************************)
EXTENDS Integers, Sequences, FiniteSets, TLC

\* ---------------------------------------------------------------- bounds
\* user turns started in one conversation
MaxTurns == 2
\* ToolCalls the model puts into one assistant message
MaxCalls == 2
\* supersteps the compiled graph runs in one invocation before it raises
\* GraphRecursionError (compile() is called without a recursionLimit, the
\* library default is 25; scaled down so that a turn can reach it)
RecursionLimit == 3
\* selections the user makes at the menu of main in one behaviour
MaxChoices == 3

VARIABLES
  variant,              \* which conversation loop runs
  loopPc,               \* position of the conversation loop
  conversationState,    \* conversationState.messages ("rethrow", "continue")
  conversationHistory,  \* conversationHistory ("manual")
  messagesToSend,       \* the array handed to app.invoke ("manual")
  messages,             \* state.messages of the graph invocation in flight
  node,                 \* the graph node that runs next
  step,                 \* supersteps run in this invocation
  pending,              \* ToolNode: indices of tool calls still executing
  outputs,              \* ToolNode: index -> ToolMessage of a finished call
  outOfOrder,           \* ToolNode: a call finished before an earlier one
  error,                \* the error the invocation threw, "none" otherwise
  displayed,            \* content printed after "Assistant:" for the last turn
  toolsUsed,            \* the calls printed under "Tools used:" for that turn
  event,                \* what the conversation loop did last
  answer,               \* the input the prompt of the loop returned last
  turns,                \* user turns started
  modelCalls,           \* model.invoke calls of this invocation
  modelInput,           \* the messages the latest model.invoke was given
  toolRuns,             \* tool executions started in this invocation
  invoked,              \* name and input of every _call run in this invocation
  uuidBase,             \* where the uuid generator stands for this invocation
  script,               \* replay: the replies the stub model gives, in order
  replay,               \* replay: which run of the turn this is (0: none)
  firstResult,          \* replay: the sequence the first run returned
  release,              \* application: which stage of the program runs
  mainPc,               \* application: position of main
  envFile,              \* the file .env of the working directory
  configFile,           \* the file config.json of the working directory
  processEnv,           \* process.env: the two API key variables
  CONFIG_DEFAULT,       \* the object CONFIG_DEFAULT of the setup module
  model,                \* the chat model the run action built last
  report,               \* what main or the action it ran reported last
  choices,              \* selections made at the menu of main
  envOpenai,            \* the file .env.openai of the working directory
  envGemini,            \* the file .env.gemini of the working directory
  prompts               \* prompts the setup script has shown

vars == <<variant, loopPc, conversationState, conversationHistory,
          messagesToSend, messages, node, step, pending, outputs,
          outOfOrder, error, displayed, toolsUsed, event, answer, turns,
          modelCalls, modelInput, toolRuns, invoked, uuidBase, script,
          replay, firstResult, release, mainPc, envFile, configFile,
          processEnv, CONFIG_DEFAULT, model, report, choices, envOpenai,
          envGemini, prompts>>

replayVars == <<uuidBase, script, replay, firstResult>>

fileVars == <<envOpenai, envGemini, prompts>>

appVars == <<release, mainPc, envFile, configFile, processEnv,
             CONFIG_DEFAULT, model, report, choices, envOpenai,
             envGemini, prompts>>

loopVars == <<variant, loopPc, conversationState, conversationHistory,
              messagesToSend, displayed, toolsUsed, event, answer, turns>>

toolVars == <<pending, outputs, outOfOrder>>

\* ------------------------------------------------------------- messages
Variants == {"rethrow", "continue", "manual", "pushonly"}

\* Message contents are tuples of text fragments, so that a template
\* literal `Result of ${input} = ${result}` keeps its interpolated parts.
HumanMessage(text) ==
  [type |-> "human", id |-> 0, content |-> <<text>>, tool_calls |-> <<>>,
   tool_call_id |-> 0, name |-> ""]

AIMessage(content, calls) ==
  [type |-> "ai", id |-> 0, content |-> content, tool_calls |-> calls,
   tool_call_id |-> 0, name |-> ""]

ToolMessage(content, name, callId) ==
  [type |-> "tool", id |-> 0, content |-> content, tool_calls |-> <<>>,
   tool_call_id |-> callId, name |-> name]

Last(s) == s[Len(s)]

IsPrefix(s, t) == Len(s) <= Len(t) /\ SubSeq(t, 1, Len(s)) = s

\* ------------------------------------------- MessagesAnnotation reducer
\* Ids are uuid v4 values (message ids) and provider-made strings (tool
\* call ids): a new one differs from every id in use, and which value it is
\* depends on where the generator stands. The model takes the number
\* uuidBase above the largest id in sight; the conversation loops run with
\* uuidBase 0, as nothing in them compares the ids of two invocations.
MaxOf(S) == IF S = {} THEN 0 ELSE CHOOSE x \in S : \A y \in S : y <= x

NewId(msgs) == uuidBase + 1 + MaxOf({msgs[i].id : i \in 1..Len(msgs)})

\* where the generator may stand when an invocation starts
UuidBases == {0, 10}

NewCallId(msgs) ==
  1 + MaxOf(UNION {{msgs[i].tool_calls[k].id :
                      k \in 1..Len(msgs[i].tool_calls)} :
                   i \in 1..Len(msgs)})

\* the value of a variable that was not assigned, of a key that is missing
Undefined == "undefined"

\* messages that still lack an id
FreshCount(msgs) == Cardinality({i \in 1..Len(msgs) : msgs[i].id = 0})

\* every message without an id gets a fresh one, in sequence order
AssignIds(msgs, next) ==
  [i \in 1..Len(msgs) |->
     IF msgs[i].id = 0
     THEN [msgs[i] EXCEPT !.id =
             next + Cardinality({j \in 1..(i - 1) : msgs[j].id = 0})]
     ELSE msgs[i]]

RECURSIVE MergeById(_, _)
\* a right message whose id is already present replaces that message in
\* place, any other is pushed at the end
MergeById(merged, right) ==
  IF right = <<>> THEN merged
  ELSE LET m == Head(right)
           hit == {i \in 1..Len(merged) : merged[i].id = m.id}
       IN IF hit # {}
          THEN MergeById([merged EXCEPT ![CHOOSE i \in hit : TRUE] = m],
                         Tail(right))
          ELSE MergeById(Append(merged, m), Tail(right))

\* mutant: a channel without a reducer, the update overwrites the value
messagesOverwrite(left, right) == AssignIds(right, NewId(left \o right))

messagesStateReducer(left, right) ==
  LET next == NewId(left \o right)
  IN MergeById(AssignIds(left, next),
               AssignIds(right, next + FreshCount(left)))

\* ------------------------------------------------------- tool registry
\* export const tools = [WeatherTool, CalculatorTool, TimeTool, SearchTool]
tools == <<"get_weather", "calculator", "get_time", "web_search">>

ToolNames == {tools[i] : i \in 1..Len(tools)}

\* class ... extends Tool: the input schema is an object with an optional
\* string `input`, transformed to that string; any other key is dropped, so
\* arguments without `input` reach _call as undefined
parse(args) == IF "input" \in DOMAIN args THEN args.input ELSE Undefined

\* reading a property of undefined: the TypeError and its message
TypeError(property) ==
  [threw |-> TRUE,
   text |-> IF property = "replace"
            THEN "Cannot read properties of undefined (reading 'replace')"
            ELSE "Cannot read properties of undefined (reading 'toLowerCase')"]

\* mutant: the character class without the operators
SanitizeDigitsOnly(input) ==
  CASE input = "15*3+7" -> "1537"
    [] input = "2+" -> "2"
    [] OTHER -> ""

\* input.replace(/[^0-9+\-*/().\s]/g, "") on the inputs the model requests
Sanitize(input) ==
  CASE input = "15*3+7" -> "15*3+7"
    [] input = "2+" -> "2+"
    [] OTHER -> ""

\* eval(sanitizedExpression): the value it returns or the error it throws
Eval(expr) ==
  CASE expr = "15*3+7" -> [threw |-> FALSE, text |-> "52"]
    [] expr = "2+" -> [threw |-> TRUE, text |-> "Unexpected end of input"]
    [] OTHER -> [threw |-> FALSE, text |-> "undefined"]

\* the try block and the catch block of CalculatorTool._call: what the try
\* block throws is returned as text
CalculatorTool(input) ==
  LET result == IF input = Undefined THEN TypeError("replace")
                ELSE Eval(Sanitize(input))
  IN [threw |-> FALSE,
      content |-> IF result.threw
                  THEN <<"Error calculating ", input, ": ", result.text>>
                  ELSE <<"Result of ", input, " = ", result.text>>]

\* weatherData[input.toLowerCase()] || { temp: "70F", condition: "Unknown" };
\* no try/catch
WeatherTool(input) ==
  IF input = Undefined
  THEN [threw |-> TRUE, content |-> <<TypeError("toLowerCase").text>>]
  ELSE [threw |-> FALSE,
        content |-> IF input = "london"
                    THEN <<"Weather in ", input, ": ",
                           "55F, Rainy, Humidity: 85%">>
                    ELSE <<"Weather in ", input, ": ",
                           "70F, Unknown, Humidity: N/A">>]

\* input.toLowerCase() is inside the try block
TimeTool(input) ==
  [threw |-> FALSE,
   content |-> IF input = Undefined
               THEN <<"Error getting time for ", input, ": ",
                      TypeError("toLowerCase").text>>
               ELSE <<"Current time in ", input, ": ",
                      "now.toLocaleString()">>]

\* mockResults[input.toLowerCase()] || `Search results for ...`; no try/catch
SearchTool(input) ==
  IF input = Undefined
  THEN [threw |-> TRUE, content |-> <<TypeError("toLowerCase").text>>]
  ELSE [threw |-> FALSE,
        content |-> <<"Search results for \"", input,
                      "\": No specific information found, but this is a simulated search result.">>]

\* the _call of the registered tool of that name
ToolCall(name, input) ==
  CASE name = "calculator" -> CalculatorTool(input)
    [] name = "get_weather" -> WeatherTool(input)
    [] name = "get_time" -> TimeTool(input)
    [] name = "web_search" -> SearchTool(input)

\* what ToolNode puts into the ToolMessage of a call that threw
ErrorContent(text) == <<"Error: ">> \o text \o <<"\n Please fix your mistakes.">>

\* `Tool "<name>" not found.`
NotFound(name) == <<"Tool \"", name, "\" not found.">>

\* the tool's execution function threw for this call
Throws(call) ==
  call.name \in ToolNames /\ ToolCall(call.name, parse(call.args)).threw

\* mutant: the ToolMessage is built without the id of its call
RunToolDropsId(call) ==
  IF call.name \in ToolNames
  THEN LET output == ToolCall(call.name, parse(call.args))
       IN ToolMessage(IF output.threw THEN ErrorContent(output.content)
                      ELSE output.content, call.name, 0)
  ELSE ToolMessage(ErrorContent(NotFound(call.name)), call.name, 0)

\* ToolNode, one call: find the tool by name and invoke it with the call's
\* arguments; a missing tool throws `Tool "<name>" not found.`; whatever is
\* thrown, ToolNode (handleToolErrors, on by default) makes the content of
\* the ToolMessage of that call
RunTool(call) ==
  IF call.name \in ToolNames
  THEN LET output == ToolCall(call.name, parse(call.args))
       IN ToolMessage(IF output.threw THEN ErrorContent(output.content)
                      ELSE output.content, call.name, call.id)
  ELSE ToolMessage(ErrorContent(NotFound(call.name)), call.name, call.id)

\* ----------------------------------------------------- the chat model
\* what the model may ask for: a registered tool, a name no tool has, an
\* expression eval rejects, and arguments without the `input` key
\* the request the registry serves without any error
Plain == [name |-> "calculator", args |-> [input |-> "15*3+7"]]

Requests ==
  {Plain,
   [name |-> "frobnicate", args |-> [input |-> "x"]],
   [name |-> "calculator", args |-> [input |-> "2+"]],
   [name |-> "get_weather", args |-> [location |-> "london"]]}

\* the ToolCalls of one reply: 1..MaxCalls requests in any order, at most
\* one of them a request that runs into an error
CallSeqs ==
  {c \in UNION {[1..n -> Requests] : n \in 1..MaxCalls} :
     Cardinality({k \in 1..Len(c) : c[k] # Plain}) <= 1}
\* the provider gives every ToolCall a new id
WithIds(calls, base) ==
  [k \in 1..Len(calls) |->
     [id |-> base + k - 1, name |-> calls[k].name, args |-> calls[k].args]]

\* no ToolCall in msgs ran into an error
FaultFree(msgs) ==
  \A i \in 1..Len(msgs) :
    \A k \in 1..Len(msgs[i].tool_calls) :
      /\ msgs[i].tool_calls[k].name = Plain.name
      /\ msgs[i].tool_calls[k].args = Plain.args

\* the replies model.invoke may return for msgs: a plain answer, or
\* ToolCalls; a model that sees a failed request among msgs makes no second
\* failing request
ModelReplies(msgs) ==
  {AIMessage(<<"The result is 52.">>, <<>>)}
    \cup {AIMessage(<<>>, WithIds(c, NewCallId(msgs))) :
            c \in {d \in CallSeqs :
                     FaultFree(msgs) \/ \A k \in 1..Len(d) : d[k] = Plain}}

\* ------------------------------------------------------- user input
Cancel == "symbol(clack:cancel)"

UserInputs ==
  {"calculate 15 * 3 + 7", "", "   ", "/quit", "/QUIT", "quit", "EXIT",
   Cancel}

\* String.prototype.toLowerCase on UserInputs
toLowerCase(s) ==
  CASE s = "/QUIT" -> "/quit"
    [] s = "EXIT" -> "exit"
    [] OTHER -> s

\* mutant: the input is compared without trim
trimNothing(s) == s

\* String.prototype.trim on UserInputs and on the model names typed in setup
trim(s) ==
  CASE s = "   " -> ""
    [] s = " gpt-4o " -> "gpt-4o"
    [] OTHER -> s

\* what the prompt of a loop is given: readline has no cancel symbol; each
\* loop gets the message text, a blank line and its own quit words
Inputs(v) ==
  CASE v = "manual" -> UserInputs \ {Cancel, "/quit", "/QUIT"}
    [] v = "pushonly" -> UserInputs \ {Cancel, "quit", "EXIT"}
    [] OTHER -> UserInputs \ {"quit", "EXIT"}

\* mutant: the quit word is compared without toLowerCase
IsQuitCaseSensitive(v, userInput) ==
  CASE v = "manual" -> userInput = "quit" \/ userInput = "exit"
    [] v = "pushonly" -> userInput = "/quit"
    [] OTHER -> userInput = Cancel \/ userInput = "/quit"

\* the loop's quit test
IsQuit(v, userInput) ==
  CASE v = "manual" ->
         toLowerCase(userInput) = "quit" \/ toLowerCase(userInput) = "exit"
    [] v = "pushonly" -> toLowerCase(userInput) = "/quit"
    [] OTHER -> userInput = Cancel \/ toLowerCase(userInput) = "/quit"

RECURSIVE CallsIn(_)
\* msgs.filter(msg => msg.tool_calls && msg.tool_calls.length > 0) and the
\* two forEach loops: name and arguments of every ToolCall, in order
CallsIn(msgs) ==
  IF msgs = <<>> THEN <<>>
  ELSE [k \in 1..Len(Head(msgs).tool_calls) |->
          [name |-> Head(msgs).tool_calls[k].name,
           args |-> Head(msgs).tool_calls[k].args]]
         \o CallsIn(Tail(msgs))

\* ------------------------------------------------------------ graph
\* mutant: the test of the conditional edge the wrong way round
shouldContinueInverted(msgs) ==
  IF Len(Last(msgs).tool_calls) > 0 THEN "__end__" ELSE "tools"

\* mutant: the conditional edge never routes to the tools
shouldContinueNever(msgs) == "__end__"

\* lastMessage.tool_calls?.length ? "tools" : "__end__"
shouldContinue(msgs) ==
  IF Len(Last(msgs).tool_calls) > 0 THEN "tools" ELSE "__end__"

\* ------------------------------------------ credentials and configuration
\* The credential handling exists in three stages, and `release` says which
\* one a behaviour runs:
\*   "simple"  setup and loadCredentials of setup.ts 5-248, runApplication
\*             of workflow.ts, the main that offers one choice
\*   "config"  setup and loadCredentials of setup.ts 290-492, buildWorkflow,
\*             conversation(), the main with the menu loop
\*   "clone"   setup and loadCredentials that clone the configuration
\*             before it is saved, buildWorkflow, conversation(), the main
\*             with the menu loop
Releases == {"simple", "config", "clone"}

\* enum ModelType
OPENAI == "openai"

GEMINI == "gemini"

ModelTypes == {OPENAI, GEMINI}

OPENAI_API_KEY == "OPENAI_API_KEY"

GOOGLE_API_KEY == "GOOGLE_API_KEY"

KeyNames == {OPENAI_API_KEY, GOOGLE_API_KEY}

\* An API key is the sequence of its characters, so that length and
\* startsWith are computed on it.
sk == <<"s", "k", "-">>

AIza == <<"A", "I", "z", "a">>

Chars(n) == [i \in 1..n |-> "x"]

\* the value undefined of an apiKey field or of an environment variable
NoKey == <<Undefined>>

\* the cancel symbol where a key is expected
CancelKey == <<Cancel>>

\* `${value}` of a template literal
Template(value) ==
  IF value = NoKey THEN <<"u", "n", "d", "e", "f", "i", "n", "e", "d">>
  ELSE value

\* !value
Falsy(value) == value = NoKey \/ value = <<>>

\* a || b
Or(a, b) == IF Falsy(a) THEN b ELSE a

\* `${name}=${value}`: the name of the variable is one token of the line
Line(name, value) == <<name, "=">> \o Template(value)

\* line.startsWith(`${name}=`)
startsWith(line, name) ==
  Len(line) >= 2 /\ line[1] = name /\ line[2] = "="

\* a file that does not exist, and a text file as the lines that
\* split("\n") gives and join("\n") takes
NoFile == [exists |-> FALSE]

File(content) == [exists |-> TRUE, content |-> content]

\* what the user types at the prompt of a key
TypedKeys ==
  {<<>>, sk \o Chars(7), sk \o Chars(3), AIza \o Chars(6), Chars(10),
   sk \o <<"=">> \o Chars(6)}

\* what the user types at the prompt of a model name
TypedNames == {" gpt-4o ", "ab", ""}

\* value.trim().length on TypedNames and the default names
trimLength(value) ==
  CASE value = "" -> 0
    [] value = "ab" -> 2
    [] value = "gpt-4" -> 5
    [] value \in {"gpt-4o", " gpt-4o "} -> 6
    [] value = "gemini-2.5-flash" -> 16
    [] OTHER -> 3

\* no chat model was built
NoModel == [modelType |-> "none", modelName |-> "", apiKey |-> NoKey]

\* the conversation loops on their own: no application around them
Standalone ==
  /\ release = "none"
  /\ mainPc = "conversation"
  /\ envFile = NoFile
  /\ configFile = NoFile
  /\ processEnv = [name \in KeyNames |-> NoKey]
  /\ CONFIG_DEFAULT = [modelUsed |-> "none"]
  /\ model = NoModel
  /\ report = "none"
  /\ choices = 0
  /\ envOpenai = NoFile
  /\ envGemini = NoFile
  /\ prompts = 0


Init ==
  /\ variant \in Variants
  /\ loopPc = "prompt"
  /\ conversationState = <<>>
  /\ conversationHistory = <<>>
  /\ messagesToSend = <<>>
  /\ messages = <<>>
  /\ node = "idle"
  /\ step = 0
  /\ pending = {}
  /\ outputs = <<>>
  /\ outOfOrder = FALSE
  /\ error = "none"
  /\ displayed = <<>>
  /\ toolsUsed = <<>>
  /\ event = "start"
  /\ answer = Undefined
  /\ turns = 0
  /\ modelCalls = 0
  /\ modelInput = <<>>
  /\ toolRuns = 0
  /\ invoked = <<>>
  /\ uuidBase = 0
  /\ script = <<>>
  /\ replay = 0
  /\ firstResult = <<>>
  /\ Standalone

graphVars == <<messages, node, step, pending, outputs, outOfOrder, error,
               modelCalls, modelInput, toolRuns, invoked>>

\* typeof userInput === "symbol" || userInput.toLowerCase() === "/quit": break
Quit(userInput) ==
  /\ loopPc = "prompt"
  /\ IsQuit(variant, userInput)
  /\ loopPc' = "ended"
  /\ event' = "quit"
  /\ answer' = userInput
  /\ UNCHANGED <<variant, conversationState, conversationHistory,
                 messagesToSend, displayed, toolsUsed, turns>>
  /\ UNCHANGED graphVars
  /\ UNCHANGED replayVars
  /\ UNCHANGED appVars

\* userInput.trim() === "": continue
SkipEmpty(userInput) ==
  /\ loopPc = "prompt"
  /\ ~IsQuit(variant, userInput)
  /\ trim(userInput) = ""
  /\ event' = "skip"
  /\ answer' = userInput
  /\ UNCHANGED <<variant, loopPc, conversationState, conversationHistory,
                 messagesToSend, displayed, toolsUsed, turns>>
  /\ UNCHANGED graphVars
  /\ UNCHANGED replayVars
  /\ UNCHANGED appVars

\* mutant: invoke is not awaited, the loop prompts while the graph runs
StartTurnNoAwait(userInput) ==
  /\ loopPc \in {"prompt", "invoke"}
  /\ ~IsQuit(variant, userInput)
  /\ trim(userInput) # ""
  /\ turns < MaxTurns
  /\ LET held == IF variant = "manual" THEN conversationHistory
                 ELSE conversationState
         input == Append(held, HumanMessage(userInput))
     IN /\ messages' = messagesStateReducer(<<>>, input)
        /\ IF variant = "manual"
           THEN /\ messagesToSend' = AssignIds(input, NewId(input))
                /\ conversationHistory' = AssignIds(held, NewId(input))
                /\ UNCHANGED conversationState
           ELSE /\ conversationState' = AssignIds(input, NewId(input))
                /\ UNCHANGED <<conversationHistory, messagesToSend>>
  /\ loopPc' = "invoke"
  /\ node' = "agent"
  /\ step' = 0
  /\ error' = "none"
  /\ modelCalls' = 0
  /\ modelInput' = <<>>
  /\ toolRuns' = 0
  /\ invoked' = <<>>
  /\ turns' = turns + 1
  /\ event' = "turn"
  /\ answer' = userInput
  /\ UNCHANGED <<variant, displayed, toolsUsed>>
  /\ UNCHANGED toolVars
  /\ UNCHANGED replayVars
  /\ UNCHANGED appVars

\* conversationState.messages.push(new HumanMessage(userInput)) and the
\* call of invoke: the input is written to the messages channel through the
\* reducer, which gives the message objects of the caller their ids
StartTurn(userInput) ==
  /\ loopPc = "prompt"
  /\ ~IsQuit(variant, userInput)
  /\ trim(userInput) # ""
  /\ turns < MaxTurns
  /\ LET held == IF variant = "manual" THEN conversationHistory
                 ELSE conversationState
         input == Append(held, HumanMessage(userInput))
     IN /\ messages' = messagesStateReducer(<<>>, input)
        /\ IF variant = "manual"
           THEN /\ messagesToSend' = AssignIds(input, NewId(input))
                /\ conversationHistory' = AssignIds(held, NewId(input))
                /\ UNCHANGED conversationState
           ELSE /\ conversationState' = AssignIds(input, NewId(input))
                /\ UNCHANGED <<conversationHistory, messagesToSend>>
  /\ loopPc' = "invoke"
  /\ node' = "agent"
  /\ step' = 0
  /\ error' = "none"
  /\ modelCalls' = 0
  /\ modelInput' = <<>>
  /\ toolRuns' = 0
  /\ invoked' = <<>>
  /\ turns' = turns + 1
  /\ event' = "turn"
  /\ answer' = userInput
  /\ UNCHANGED <<variant, displayed, toolsUsed>>
  /\ UNCHANGED toolVars
  /\ UNCHANGED replayVars
  /\ UNCHANGED appVars

\* when each step of an invocation can be taken
InFlight == loopPc = "invoke"

AgentDue == InFlight /\ node = "agent" /\ step < RecursionLimit

ToolsDue == InFlight /\ node = "tools" /\ step < RecursionLimit

ToolRunning(k) == InFlight /\ node = "tools_running" /\ k \in pending

ToolsSettled == InFlight /\ node = "tools_running" /\ pending = {}

OutOfSteps ==
  InFlight /\ node \in {"agent", "tools"} /\ step >= RecursionLimit

Resolved == InFlight /\ node = "__end__"

Rejected == InFlight /\ node = "failed"

\* mutant: the model is given the latest message only
CallModelSendsLast(response) ==
  /\ loopPc = "invoke"
  /\ node = "agent"
  /\ step < RecursionLimit
  /\ modelInput' = <<Last(messages)>>
  /\ messages' = messagesStateReducer(messages, <<response>>)
  /\ node' = shouldContinue(messages')
  /\ step' = step + 1
  /\ modelCalls' = modelCalls + 1
  /\ UNCHANGED <<error, toolRuns, invoked>>
  /\ UNCHANGED toolVars
  /\ UNCHANGED loopVars
  /\ UNCHANGED replayVars
  /\ UNCHANGED appVars

\* the "agent" node, callModel, when model.invoke returns: the reply is
\* added to the messages through the reducer, then the conditional edge
\* shouldContinue picks the next node
CallModel(response) ==
  /\ AgentDue
  /\ modelInput' = messages
  /\ messages' = messagesStateReducer(messages, <<response>>)
  /\ node' = shouldContinue(messages')
  /\ step' = step + 1
  /\ modelCalls' = modelCalls + 1
  /\ UNCHANGED <<error, toolRuns, invoked>>
  /\ UNCHANGED toolVars
  /\ UNCHANGED loopVars
  /\ UNCHANGED replayVars
  /\ UNCHANGED appVars

\* mutant: a rejected model call is retried by the graph
CallModelRetries ==
  /\ loopPc = "invoke"
  /\ node = "agent"
  /\ step < RecursionLimit
  /\ modelCalls' = modelCalls + 1
  /\ step' = step + 1
  /\ modelInput' = messages
  /\ UNCHANGED <<messages, node, error, toolRuns, invoked>>
  /\ UNCHANGED toolVars
  /\ UNCHANGED loopVars
  /\ UNCHANGED replayVars
  /\ UNCHANGED appVars

\* the "agent" node when model.invoke rejects (network, auth, rate limit):
\* callModel has no try/catch and the graph has no retry policy, so the
\* invocation rejects with that error
CallModelFails ==
  /\ AgentDue
  /\ modelInput' = messages
  /\ error' = "ModelInvocationError"
  /\ node' = "failed"
  /\ modelCalls' = modelCalls + 1
  /\ UNCHANGED <<messages, step, toolRuns, invoked>>
  /\ UNCHANGED toolVars
  /\ UNCHANGED loopVars
  /\ UNCHANGED replayVars
  /\ UNCHANGED appVars

RECURSIVE Executions(_)
\* the _call invocations a list of ToolCalls leads to: one for every call
\* whose tool is registered, with the input parsed from that call's
\* arguments
Executions(calls) ==
  IF calls = <<>> THEN <<>>
  ELSE (IF Head(calls).name \in ToolNames
        THEN <<[name |-> Head(calls).name, input |-> parse(Head(calls).args)]>>
        ELSE <<>>)
         \o Executions(Tail(calls))

\* mutant: the tools node starts the first call only, one call at a time
ToolsStartFirstOnly ==
  /\ loopPc = "invoke"
  /\ node = "tools"
  /\ step < RecursionLimit
  /\ pending' = {1}
  /\ outputs' = <<>>
  /\ outOfOrder' = FALSE
  /\ toolRuns' = toolRuns + Len(Last(messages).tool_calls)
  /\ invoked' = invoked \o Executions(Last(messages).tool_calls)
  /\ node' = "tools_running"
  /\ UNCHANGED <<messages, step, error, modelCalls, modelInput>>
  /\ UNCHANGED loopVars
  /\ UNCHANGED replayVars
  /\ UNCHANGED appVars

\* mutant: the tools node runs the ToolCalls of every message in the state
ToolsStartAllMessages ==
  /\ loopPc = "invoke"
  /\ node = "tools"
  /\ step < RecursionLimit
  /\ pending' = 1..Len(Last(messages).tool_calls)
  /\ outputs' = <<>>
  /\ outOfOrder' = FALSE
  /\ toolRuns' = toolRuns + Len(Last(messages).tool_calls)
  /\ invoked' = invoked \o Executions(CallsIn(messages))
  /\ node' = "tools_running"
  /\ UNCHANGED <<messages, step, error, modelCalls, modelInput>>
  /\ UNCHANGED loopVars
  /\ UNCHANGED replayVars
  /\ UNCHANGED appVars

\* the "tools" node starts: ToolNode maps every tool_call of the last
\* message to a promise, so all calls are started, in order: each
\* registered tool is invoked with the arguments of its call
ToolsStart ==
  /\ ToolsDue
  /\ pending' = 1..Len(Last(messages).tool_calls)
  /\ outputs' = <<>>
  /\ outOfOrder' = FALSE
  /\ toolRuns' = toolRuns + Len(Last(messages).tool_calls)
  /\ invoked' = invoked \o Executions(Last(messages).tool_calls)
  /\ node' = "tools_running"
  /\ UNCHANGED <<messages, step, error, modelCalls, modelInput>>
  /\ UNCHANGED loopVars
  /\ UNCHANGED replayVars
  /\ UNCHANGED appVars

\* mutant: every result is pushed when its call settles
ToolSettlesPush(k) ==
  /\ loopPc = "invoke"
  /\ node = "tools_running"
  /\ k \in pending
  /\ pending' = pending \ {k}
  /\ outputs' = Append(outputs, RunTool(Last(messages).tool_calls[k]))
  /\ outOfOrder' = (outOfOrder \/ \E j \in pending : j < k)
  /\ UNCHANGED <<messages, node, step, error, modelCalls, toolRuns, invoked,
                 modelInput>>
  /\ UNCHANGED loopVars
  /\ UNCHANGED replayVars
  /\ UNCHANGED appVars

\* mutant: the error of a missing tool is thrown, not made a ToolMessage
ToolSettlesThrows(k) ==
  /\ loopPc = "invoke"
  /\ node = "tools_running"
  /\ k \in pending
  /\ IF Last(messages).tool_calls[k].name \in ToolNames
     THEN /\ pending' = pending \ {k}
          /\ outputs' = [j \in (DOMAIN outputs) \cup {k} |->
                           IF j = k THEN RunTool(Last(messages).tool_calls[k])
                           ELSE outputs[j]]
          /\ outOfOrder' = (outOfOrder \/ \E j \in pending : j < k)
          /\ UNCHANGED <<node, error>>
     ELSE /\ node' = "failed"
          /\ error' = "ToolNotFound"
          /\ UNCHANGED toolVars
  /\ UNCHANGED <<messages, step, modelCalls, toolRuns, invoked, modelInput>>
  /\ UNCHANGED loopVars
  /\ UNCHANGED replayVars
  /\ UNCHANGED appVars

\* mutant: ToolNode without handleToolErrors, what a tool throws rejects
ToolSettlesRejects(k) ==
  /\ loopPc = "invoke"
  /\ node = "tools_running"
  /\ k \in pending
  /\ IF Throws(Last(messages).tool_calls[k])
     THEN /\ node' = "failed"
          /\ error' = "ToolExecutionError"
          /\ UNCHANGED toolVars
     ELSE /\ pending' = pending \ {k}
          /\ outputs' = [j \in (DOMAIN outputs) \cup {k} |->
                           IF j = k THEN RunTool(Last(messages).tool_calls[k])
                           ELSE outputs[j]]
          /\ outOfOrder' = (outOfOrder \/ \E j \in pending : j < k)
          /\ UNCHANGED <<node, error>>
  /\ UNCHANGED <<messages, step, modelCalls, toolRuns, invoked, modelInput>>
  /\ UNCHANGED loopVars
  /\ UNCHANGED replayVars
  /\ UNCHANGED appVars

\* one started call settles; the calls settle in any order
ToolSettles(k) ==
  /\ ToolRunning(k)
  /\ pending' = pending \ {k}
  /\ outputs' = [j \in (DOMAIN outputs) \cup {k} |->
                   IF j = k THEN RunTool(Last(messages).tool_calls[k])
                   ELSE outputs[j]]
  /\ outOfOrder' = (outOfOrder \/ \E j \in pending : j < k)
  /\ UNCHANGED <<messages, node, step, error, modelCalls, toolRuns, invoked,
                 modelInput>>
  /\ UNCHANGED loopVars
  /\ UNCHANGED replayVars
  /\ UNCHANGED appVars

\* mutant: the edge out of the tools leads to __end__
ToolsJoinToEnd ==
  /\ loopPc = "invoke"
  /\ node = "tools_running"
  /\ pending = {}
  /\ LET n == Len(Last(messages).tool_calls)
         results == [k \in 1..n |-> outputs[k]]
     IN messages' = messagesStateReducer(messages, results)
  /\ node' = "__end__"
  /\ step' = step + 1
  /\ outputs' = <<>>
  /\ outOfOrder' = FALSE
  /\ UNCHANGED <<pending, error, modelCalls, toolRuns, invoked, modelInput>>
  /\ UNCHANGED loopVars
  /\ UNCHANGED replayVars
  /\ UNCHANGED appVars

\* mutant: the results are pushed onto the array the caller passed
ToolsJoinInPlace ==
  /\ loopPc = "invoke"
  /\ node = "tools_running"
  /\ pending = {}
  /\ LET n == Len(Last(messages).tool_calls)
         results == [k \in 1..n |-> outputs[k]]
     IN messages' = messagesStateReducer(messages, results)
  /\ IF variant = "manual"
     THEN /\ messagesToSend' = messages'
          /\ conversationHistory' = SubSeq(messages', 1, Len(messages') - 1)
          /\ UNCHANGED conversationState
     ELSE /\ conversationState' = messages'
          /\ UNCHANGED <<conversationHistory, messagesToSend>>
  /\ node' = "agent"
  /\ step' = step + 1
  /\ outputs' = <<>>
  /\ outOfOrder' = FALSE
  /\ UNCHANGED <<pending, error, modelCalls, toolRuns, invoked, modelInput>>
  /\ UNCHANGED <<variant, loopPc, displayed, toolsUsed, event, answer, turns>>
  /\ UNCHANGED replayVars
  /\ UNCHANGED appVars

\* mutant: the results are appended as the calls settled
ToolsJoinSettleOrder ==
  /\ loopPc = "invoke"
  /\ node = "tools_running"
  /\ pending = {}
  /\ LET n == Len(Last(messages).tool_calls)
         results == [k \in 1..n |->
                       IF outOfOrder THEN outputs[n + 1 - k] ELSE outputs[k]]
     IN messages' = messagesStateReducer(messages, results)
  /\ node' = "agent"
  /\ step' = step + 1
  /\ outputs' = <<>>
  /\ outOfOrder' = FALSE
  /\ UNCHANGED <<pending, error, modelCalls, toolRuns, invoked, modelInput>>
  /\ UNCHANGED loopVars
  /\ UNCHANGED replayVars
  /\ UNCHANGED appVars

\* Promise.all resolves: the outputs, in the order of the tool_calls, are
\* added to the messages; the edge tools -> agent leads back to the model
ToolsJoin ==
  /\ ToolsSettled
  /\ LET n == Len(Last(messages).tool_calls)
         results == [k \in 1..n |-> outputs[k]]
     IN messages' = messagesStateReducer(messages, results)
  /\ node' = "agent"
  /\ step' = step + 1
  /\ outputs' = <<>>
  /\ outOfOrder' = FALSE
  /\ UNCHANGED <<pending, error, modelCalls, toolRuns, invoked, modelInput>>
  /\ UNCHANGED loopVars
  /\ UNCHANGED replayVars
  /\ UNCHANGED appVars

\* mutant: the step limit is reported as a failure of the model
RecursionLimitAsModelError ==
  /\ loopPc = "invoke"
  /\ node \in {"agent", "tools"}
  /\ step >= RecursionLimit
  /\ error' = "ModelInvocationError"
  /\ node' = "failed"
  /\ UNCHANGED <<messages, step, modelCalls, toolRuns, invoked, modelInput>>
  /\ UNCHANGED toolVars
  /\ UNCHANGED loopVars
  /\ UNCHANGED replayVars
  /\ UNCHANGED appVars

\* a node is due but the invocation has run RecursionLimit supersteps:
\* the graph throws GraphRecursionError
RecursionLimitReached ==
  /\ OutOfSteps
  /\ error' = "GraphRecursionError"
  /\ node' = "failed"
  /\ UNCHANGED <<messages, step, modelCalls, toolRuns, invoked, modelInput>>
  /\ UNCHANGED toolVars
  /\ UNCHANGED loopVars
  /\ UNCHANGED replayVars
  /\ UNCHANGED appVars

\* the state of an invocation is gone once invoke has settled
InvocationOver ==
  /\ messages' = <<>>
  /\ node' = "idle"
  /\ step' = 0
  /\ pending' = {}
  /\ outputs' = <<>>
  /\ outOfOrder' = FALSE
  /\ modelCalls' = 0
  /\ modelInput' = <<>>
  /\ toolRuns' = 0
  /\ invoked' = <<>>

\* mutant: the manual loop keeps the new messages without the user message
ReturnDropsUserMessage ==
  /\ loopPc = "invoke"
  /\ node = "__end__"
  /\ IF variant = "manual"
     THEN LET newMessages ==
                SubSeq(messages, Len(messagesToSend) + 1, Len(messages))
          IN /\ conversationHistory' = conversationHistory \o newMessages
             /\ displayed' = Last(newMessages).content
             /\ toolsUsed' = <<>>
             /\ messagesToSend' = <<>>
             /\ UNCHANGED conversationState
     ELSE /\ conversationState' =
               (IF variant = "pushonly" THEN conversationState ELSE messages)
          /\ displayed' = Last(messages).content
          /\ toolsUsed' = CallsIn(messages)
          /\ UNCHANGED <<conversationHistory, messagesToSend>>
  /\ loopPc' = "prompt"
  /\ event' = "reply"
  /\ InvocationOver
  /\ UNCHANGED <<variant, answer, turns, error>>
  /\ UNCHANGED replayVars
  /\ UNCHANGED appVars

\* mutant: the new messages are sliced from the length of the history
ReturnSlicesFromHistory ==
  /\ loopPc = "invoke"
  /\ node = "__end__"
  /\ IF variant = "manual"
     THEN LET newMessages ==
                SubSeq(messages, Len(conversationHistory) + 1, Len(messages))
          IN /\ conversationHistory' =
                  conversationHistory
                    \o <<[Last(messagesToSend) EXCEPT !.id = 0]>>
                    \o newMessages
             /\ displayed' = Last(newMessages).content
             /\ toolsUsed' = <<>>
             /\ messagesToSend' = <<>>
             /\ UNCHANGED conversationState
     ELSE /\ conversationState' =
               (IF variant = "pushonly" THEN conversationState ELSE messages)
          /\ displayed' = Last(messages).content
          /\ toolsUsed' = CallsIn(messages)
          /\ UNCHANGED <<conversationHistory, messagesToSend>>
  /\ loopPc' = "prompt"
  /\ event' = "reply"
  /\ InvocationOver
  /\ UNCHANGED <<variant, answer, turns, error>>
  /\ UNCHANGED replayVars
  /\ UNCHANGED appVars

\* the invocation resolved: the loop keeps the response (not in "pushonly"),
\* prints the content of its last message and, except in "manual", the
\* ToolCalls of response.messages; then it goes back to the prompt
Return ==
  /\ Resolved
  /\ IF variant = "manual"
     THEN LET newMessages ==
                SubSeq(messages, Len(messagesToSend) + 1, Len(messages))
          IN /\ conversationHistory' =
                  conversationHistory
                    \o <<[Last(messagesToSend) EXCEPT !.id = 0]>>
                    \o newMessages
             /\ displayed' = Last(newMessages).content
             /\ toolsUsed' = <<>>
             /\ messagesToSend' = <<>>
             /\ UNCHANGED conversationState
     ELSE /\ conversationState' =
               (IF variant = "pushonly" THEN conversationState ELSE messages)
          /\ displayed' = Last(messages).content
          /\ toolsUsed' = CallsIn(messages)
          /\ UNCHANGED <<conversationHistory, messagesToSend>>
  /\ loopPc' = "prompt"
  /\ event' = "reply"
  /\ InvocationOver
  /\ UNCHANGED <<variant, answer, turns, error>>
  /\ UNCHANGED replayVars
  /\ UNCHANGED appVars

\* the invocation rejected: the catch block of the loop logs the error and
\* either throws it on ("rethrow") or drops it and prompts again
Catch ==
  /\ Rejected
  /\ loopPc' = IF variant = "rethrow" THEN "thrown" ELSE "prompt"
  /\ event' = "error"
  /\ error' = IF variant = "rethrow" THEN error ELSE "none"
  /\ messagesToSend' = <<>>
  /\ InvocationOver
  /\ UNCHANGED <<variant, conversationState, conversationHistory, displayed,
                 toolsUsed, answer, turns>>
  /\ UNCHANGED replayVars
  /\ UNCHANGED appVars

Next ==
  \/ \E userInput \in Inputs(variant) : Quit(userInput)
  \/ \E userInput \in Inputs(variant) : SkipEmpty(userInput)
  \/ \E userInput \in Inputs(variant) : StartTurn(userInput)
  \/ \E response \in ModelReplies(messages) : CallModel(response)
  \/ CallModelFails
  \/ ToolsStart
  \/ \E k \in 1..(MaxCalls + 1) : ToolSettles(k)
  \/ ToolsJoin
  \/ RecursionLimitReached
  \/ Return
  \/ Catch

Spec == Init /\ [][Next]_vars

\* the graph runs: every settled promise has its continuation run, and
\* model.invoke settles (it resolves or rejects)
GraphStep ==
  \/ \E response \in ModelReplies(messages) : CallModel(response)
  \/ CallModelFails
  \/ ToolsStart
  \/ \E k \in 1..(MaxCalls + 1) : ToolSettles(k)
  \/ ToolsJoin
  \/ RecursionLimitReached
  \/ Return
  \/ Catch

FairSpec == Spec /\ WF_vars(GraphStep)

\* ----------------------------------------------------------- replay
\* One turn run twice: the compiled graph is invoked two times with the same
\* input and a deterministic model, a stub whose k-th call returns the k-th
\* reply of a fixed script.
Scripts ==
  {<<AIMessage(<<"The result is 52.">>, <<>>)>>}
    \cup {<<AIMessage(<<>>, WithIds(c, 1)),
             AIMessage(<<"The result is 52.">>, <<>>)>> : c \in CallSeqs}

\* the inputs of the replayed turn: a first message, and a message after an
\* earlier exchange
InitialStates ==
  {<<HumanMessage("calculate 15 * 3 + 7")>>,
   <<HumanMessage("calculate 15 * 3 + 7"),
     AIMessage(<<"The result is 52.">>, <<>>),
     HumanMessage("calculate 15 * 3 + 7")>>}

\* what the stub model returns at its next call
Scripted ==
  IF modelCalls < Len(script) THEN {script[modelCalls + 1]} ELSE {}

ReplayInit ==
  /\ variant = "rethrow"
  /\ loopPc = "prompt"
  /\ conversationState \in InitialStates
  /\ conversationHistory = <<>>
  /\ messagesToSend = <<>>
  /\ messages = <<>>
  /\ node = "idle"
  /\ step = 0
  /\ pending = {}
  /\ outputs = <<>>
  /\ outOfOrder = FALSE
  /\ error = "none"
  /\ displayed = <<>>
  /\ toolsUsed = <<>>
  /\ event = "start"
  /\ answer = Undefined
  /\ turns = 0
  /\ modelCalls = 0
  /\ modelInput = <<>>
  /\ toolRuns = 0
  /\ invoked = <<>>
  /\ uuidBase \in UuidBases
  /\ script \in Scripts
  /\ replay = 0
  /\ firstResult = <<>>
  /\ Standalone

\* workflow.invoke(state) with a copy of the same input, a first and a
\* second time
ReplayInvoke ==
  /\ loopPc = "prompt"
  /\ replay < 2
  /\ replay' = replay + 1
  /\ messages' = messagesStateReducer(<<>>, conversationState)
  /\ loopPc' = "invoke"
  /\ node' = "agent"
  /\ step' = 0
  /\ modelCalls' = 0
  /\ modelInput' = <<>>
  /\ toolRuns' = 0
  /\ invoked' = <<>>
  /\ event' = "turn"
  /\ UNCHANGED <<variant, conversationState, conversationHistory,
                 messagesToSend, displayed, toolsUsed, answer, turns, error>>
  /\ UNCHANGED toolVars
  /\ UNCHANGED <<uuidBase, script, firstResult>>
  /\ UNCHANGED appVars

\* the first invocation resolved: its result is kept for the comparison and
\* the generator of ids has moved on
ReplayResolved ==
  /\ Resolved
  /\ replay = 1
  /\ firstResult' = messages
  /\ uuidBase' \in UuidBases
  /\ loopPc' = "prompt"
  /\ event' = "reply"
  /\ InvocationOver
  /\ UNCHANGED <<variant, conversationState, conversationHistory,
                 messagesToSend, displayed, toolsUsed, answer, turns, error>>
  /\ UNCHANGED <<script, replay>>
  /\ UNCHANGED appVars

ReplayNext ==
  \/ ReplayInvoke
  \/ \E response \in Scripted : CallModel(response)
  \/ ToolsStart
  \/ \E k \in 1..(MaxCalls + 1) : ToolSettles(k)
  \/ ToolsJoin
  \/ ReplayResolved

ReplaySpec == ReplayInit /\ [][ReplayNext]_vars

\* ------------------------------------------------------------- twin
\* Two loops side by side: every turn is run by the loop that keeps
\* conversationHistory and slices the response, and then, with the same
\* input and the same replies of the model, by conversation(), which keeps
\* the response as conversationState.

\* what the stub model may be made to reply in a turn that starts from msgs
TwinScripts(msgs) ==
  {<<r, AIMessage(<<"The result is 52.">>, <<>>)>> :
     r \in {m \in ModelReplies(msgs) : Len(m.tool_calls) > 0}}
    \cup {<<AIMessage(<<"The result is 52.">>, <<>>)>>}

TwinInit ==
  /\ Init
  /\ variant = "manual"

\* the replies of the model for the next turn are fixed
TwinChoose(replies) ==
  /\ loopPc = "prompt"
  /\ replay = 0 \/ (replay = 2 /\ event = "reply")
  /\ turns < MaxTurns
  /\ script' = replies
  /\ replay' = 1
  /\ variant' = "manual"
  /\ event' = "script"
  /\ UNCHANGED <<loopPc, conversationState, conversationHistory,
                 messagesToSend, displayed, toolsUsed, answer, turns>>
  /\ UNCHANGED graphVars
  /\ UNCHANGED <<uuidBase, firstResult>>
  /\ UNCHANGED appVars

\* the turn in the loop of the manual history
TwinStart(userInput) ==
  /\ event = "script"
  /\ StartTurn(userInput)

\* the manual loop has answered: conversation() is given the same input; it
\* has started one turn less
TwinSwitch ==
  /\ loopPc = "prompt"
  /\ replay = 1
  /\ event = "reply"
  /\ variant' = "rethrow"
  /\ replay' = 2
  /\ turns' = turns - 1
  /\ event' = "twin"
  /\ firstResult' = conversationHistory
  /\ UNCHANGED <<loopPc, conversationState, conversationHistory,
                 messagesToSend, displayed, toolsUsed, answer>>
  /\ UNCHANGED graphVars
  /\ UNCHANGED <<uuidBase, script>>
  /\ UNCHANGED appVars

\* the same turn in conversation()
TwinRestart ==
  /\ event = "twin"
  /\ StartTurn(answer)

TwinNext ==
  \/ \E replies \in TwinScripts(conversationHistory) : TwinChoose(replies)
  \/ \E userInput \in Inputs("manual") : TwinStart(userInput)
  \/ TwinSwitch
  \/ TwinRestart
  \/ \E response \in Scripted : CallModel(response)
  \/ ToolsStart
  \/ \E k \in 1..(MaxCalls + 1) : ToolSettles(k)
  \/ ToolsJoin
  \/ Return

TwinSpec == TwinInit /\ [][TwinNext]_vars

\* ------------------------------------------------------ setup: prompts
\* text() of @clack/prompts: the prompt stays open while validate returns a
\* message, so it returns one of the typed values that validate accepts, or
\* the cancel symbol
TextPrompt(accepted, cancel) == accepted \cup {cancel}

\* validate of the model name prompts (setup.ts 29-37, 52-60)
validateModelName(value) ==
  IF value = "" \/ trimLength(value) = 0 THEN "Model name cannot be empty"
  ELSE IF trimLength(value) < 3
       THEN "Model name must be at least 3 characters long"
       ELSE Undefined

\* validate of the model name prompts that fall back on the configured
\* name: value = value || config[modelType]?.modelName || ""
validateModelNameOr(value, modelName) ==
  validateModelName(IF value = "" THEN modelName ELSE value)

\* validate of the API key prompts: the prefix is "sk-" for OpenAI and
\* "AIza" for Google AI
validateApiKey(value, prefix) ==
  IF Falsy(value) \/ Len(value) < 10
  THEN "API key must be at least 10 characters long"
  ELSE IF ~IsPrefix(prefix, value)
       THEN "API key should start with the prefix"
       ELSE Undefined

\* validate of the API key prompts that fall back on the environment:
\* value = value || process.env.OPENAI_API_KEY || ""
validateApiKeyOr(value, fallback, prefix) ==
  validateApiKey(Or(Or(value, fallback), <<>>), prefix)

\* the prefix a key of the provider starts with, and the environment
\* variable that holds it
KeyPrefix(modelType) == IF modelType = OPENAI THEN sk ELSE AIza

apiKeyEnvVar(modelType) ==
  IF modelType = OPENAI THEN OPENAI_API_KEY ELSE GOOGLE_API_KEY

\* --------------------------------------------- setup: "simple" release
null == [null |-> TRUE]

\* a property of a parsed JSON object, "" where it is missing
Property(object, key) == IF key \in DOMAIN object THEN object[key] ELSE ""

RECURSIVE UpToEquals(_)
\* the characters of a text before its first "="
UpToEquals(s) ==
  IF s = <<>> \/ Head(s) = "=" THEN <<>>
  ELSE <<Head(s)>> \o UpToEquals(Tail(s))

\* line.split("=")[1] of a line that starts with `${name}=`
SplitEquals1(line) == UpToEquals(SubSeq(line, 3, Len(line)))

\* the first line of the file that starts with `${name}=`, <<>> if none
FirstLine(lines, name) ==
  LET found == SelectSeq(lines, LAMBDA line : startsWith(line, name))
  IN IF found = <<>> THEN <<>> ELSE Head(found)

\* loadCredentials of the "simple" release: null unless config.json and
\* .env exist, config.json has modelType, modelName and provider, and .env
\* has a key for the provider
loadCredentials(cfile, efile) ==
  IF ~cfile.exists THEN null
  ELSE IF ~efile.exists THEN null
  ELSE LET config == cfile.content
           modelType == Property(config, "modelType")
           modelName == Property(config, "modelName")
           provider == Property(config, "provider")
           line == IF provider \in ModelTypes
                   THEN FirstLine(efile.content, apiKeyEnvVar(provider))
                   ELSE <<>>
           apiKey == IF line = <<>> THEN <<>> ELSE SplitEquals1(line)
       IN IF modelType = "" \/ modelName = "" \/ provider = "" THEN null
          ELSE IF Falsy(apiKey) THEN null
          ELSE [modelType |-> modelType, modelName |-> modelName,
                apiKey |-> apiKey, provider |-> provider]

\* what a call of setup leaves: its return value, the two files and the
\* object CONFIG_DEFAULT
Returned(value, efile, cfile, config) ==
  [returned |-> value, envFile |-> efile, configFile |-> cfile,
   CONFIG_DEFAULT |-> config]

\* mutant: the line of the key is added and no earlier line is removed
setupSimpleAppends(modelType, typedName, typedKey, failure, efile, cfile, config) ==
  LET cancelled == Returned(FALSE, efile, cfile, config)
      specificModel == trim(typedName)
      envContent == IF efile.exists THEN efile.content ELSE <<<<>>>>
      kept == envContent
      lines == Append(kept, Line(apiKeyEnvVar(modelType), typedKey))
      configData == [modelType |-> modelType, modelName |-> specificModel,
                     provider |-> modelType]
  IN IF modelType \notin ModelTypes THEN cancelled
     ELSE IF typedName = "" \/ typedName = Cancel THEN cancelled
     ELSE IF Falsy(typedKey) \/ typedKey = CancelKey THEN cancelled
     ELSE IF failure = 1 THEN cancelled
     ELSE IF failure = 2 THEN Returned(FALSE, File(lines), cfile, config)
     ELSE Returned(TRUE, File(lines), File(configData), config)

\* setup of the "simple" release with what the user selects and types;
\* failure says which writeFileSync throws (0: none)
setupSimple(modelType, typedName, typedKey, failure, efile, cfile, config) ==
  LET cancelled == Returned(FALSE, efile, cfile, config)
      specificModel == trim(typedName)
      envContent == IF efile.exists THEN efile.content ELSE <<<<>>>>
      kept == SelectSeq(envContent,
                LAMBDA line : ~startsWith(line, apiKeyEnvVar(modelType)))
      lines == Append(kept, Line(apiKeyEnvVar(modelType), typedKey))
      configData == [modelType |-> modelType, modelName |-> specificModel,
                     provider |-> modelType]
  IN IF modelType \notin ModelTypes THEN cancelled
     ELSE IF typedName = "" \/ typedName = Cancel THEN cancelled
     ELSE IF Falsy(typedKey) \/ typedKey = CancelKey THEN cancelled
     ELSE IF failure = 1 THEN cancelled
     ELSE IF failure = 2 THEN Returned(FALSE, File(lines), cfile, config)
     ELSE Returned(TRUE, File(lines), File(configData), config)

\* ------------------------------------ setup: "config" and "clone" releases
ModelInfo(modelType, modelName, apiKey) ==
  [modelType |-> modelType, modelName |-> modelName, apiKey |-> apiKey]

\* const CONFIG_DEFAULT when the setup module is loaded. The field
\* modelUsed names the object that config.modelUsed refers to: "initial"
\* is the object of the literal; setup makes it refer to config.openai or
\* config.gemini, and a write through it then changes that object. The
\* "clone" release takes the keys from the environment of the process.
ConfigDefault(rel, env) ==
  IF rel \notin {"config", "clone"} THEN [modelUsed |-> "none"]
  ELSE [modelUsed |-> "initial",
        initial |-> ModelInfo(OPENAI, "gpt-4",
                     IF rel = "clone" THEN env[OPENAI_API_KEY] ELSE <<>>),
        gemini |-> ModelInfo(GEMINI, "gemini-2.5-flash",
                     IF rel = "clone" THEN env[GOOGLE_API_KEY] ELSE <<>>),
        openai |-> ModelInfo(OPENAI, "gpt-4",
                     IF rel = "clone" THEN env[OPENAI_API_KEY] ELSE <<>>)]

\* config.modelUsed
ModelUsed(config) == config[config.modelUsed]

\* JSON.stringify of a ModelInfo: a property whose value is undefined or a
\* symbol is left out
Stringify(info) ==
  [key \in {k \in DOMAIN info :
              /\ ~(k = "apiKey" /\ info[k] = NoKey)
              /\ ~(k = "modelType" /\ info[k] = Cancel)} |-> info[key]]

\* JSON.stringify(config)
StringifyConfig(config) ==
  [modelUsed |-> Stringify(ModelUsed(config)),
   gemini |-> Stringify(config.gemini),
   openai |-> Stringify(config.openai)]

\* delete info.apiKey
DeleteApiKey(info) == [key \in DOMAIN info \ {"apiKey"} |-> info[key]]

\* mutant: the clone is saved with its apiKey properties
configSavedKeepsKeys(config) == StringifyConfig(config)

\* JSON.stringify(configSaved), where configSaved is _.cloneDeep(config)
\* with the three apiKey properties deleted
configSaved(config) ==
  [modelUsed |-> Stringify(DeleteApiKey(ModelUsed(config))),
   gemini |-> Stringify(DeleteApiKey(config.gemini)),
   openai |-> Stringify(DeleteApiKey(config.openai))]

\* lodash merge of a parsed ModelInfo into an object: the properties of
\* the source are assigned, the others stay
MergeInfo(info, source) ==
  [key \in DOMAIN info |->
     IF key \in DOMAIN source THEN source[key] ELSE info[key]]

\* merge(CONFIG_DEFAULT, JSON.parse(configContent)): the destination is
\* changed in place, key by key in the order of the parsed object
merge(config, parsed) ==
  LET first == IF "modelUsed" \in DOMAIN parsed
               THEN [config EXCEPT
                       ![config.modelUsed] = MergeInfo(@, parsed.modelUsed)]
               ELSE config
      second == IF "gemini" \in DOMAIN parsed
                THEN [first EXCEPT !.gemini = MergeInfo(@, parsed.gemini)]
                ELSE first
  IN IF "openai" \in DOMAIN parsed
     THEN [second EXCEPT !.openai = MergeInfo(@, parsed.openai)]
     ELSE second

\* loadCredentials of the "config" and "clone" releases: CONFIG_DEFAULT as
\* it is when a file is missing; otherwise config.json merged into
\* CONFIG_DEFAULT, and the keys of the environment of the process
loadCredentialsConfig(default, cfile, efile, env) ==
  IF ~cfile.exists THEN default
  ELSE IF ~efile.exists THEN default
  ELSE [merge(default, cfile.content) EXCEPT
          !.gemini.apiKey = Or(env[GOOGLE_API_KEY], <<>>),
          !.openai.apiKey = Or(env[OPENAI_API_KEY], <<>>)]

\* `OPENAI_API_KEY=${...}\nGOOGLE_API_KEY=${...}`
EnvContent(config) ==
  <<Line(OPENAI_API_KEY, config.openai.apiKey),
    Line(GOOGLE_API_KEY, config.gemini.apiKey)>>

\* setup up to the prompt of the API key: the provider is written through
\* config.modelUsed, the name into the object of the provider
Selected(config, modelType) ==
  [config EXCEPT ![config.modelUsed].modelType = modelType]

Named(config, modelType, typedName) ==
  IF modelType \in ModelTypes
  THEN [Selected(config, modelType) EXCEPT ![modelType].modelName = typedName]
  ELSE Selected(config, modelType)

\* the object of the literal once config.modelUsed refers to another
\* object: nothing refers to it any more
Unreferenced == ModelInfo("", "", <<>>)

\* setup from the prompt of the API key to the save: the key is written
\* into the object of the provider, then config.modelUsed is made to refer
\* to the object of the provider selected
Keyed(config, modelType, typedKey) ==
  LET keyed == IF modelType \in ModelTypes
               THEN [config EXCEPT ![modelType].apiKey = typedKey]
               ELSE config
  IN IF ModelUsed(keyed).modelType \in ModelTypes
     THEN [keyed EXCEPT !.modelUsed = ModelUsed(keyed).modelType,
                        !.initial = Unreferenced]
     ELSE keyed

\* setup of the "config" release; specificModel is declared "" and no
\* statement assigns it. The files are written into __dirname, taken to be
\* the working directory.
setupConfig(modelType, typedName, typedKey, failure, efile, cfile, default, env) ==
  LET config == loadCredentialsConfig(default, cfile, efile, env)
      specificModel == ""
      named == Named(config, modelType, typedName)
      used == Keyed(named, modelType, typedKey)
  IN IF modelType \in ModelTypes /\ (typedName = "" \/ typedName = Cancel)
     THEN Returned(FALSE, efile, cfile, Selected(config, modelType))
     ELSE IF specificModel = "" THEN Returned(FALSE, efile, cfile, named)
     ELSE IF modelType \in ModelTypes
               /\ (Falsy(typedKey) \/ typedKey = CancelKey)
          THEN Returned(FALSE, efile, cfile, named)
     ELSE IF failure = 1 THEN Returned(FALSE, efile, cfile, used)
     ELSE IF failure = 2
          THEN Returned(FALSE, efile, File(StringifyConfig(used)), used)
     ELSE Returned(TRUE, File(EnvContent(used)),
                   File(StringifyConfig(used)), used)

\* setup of the "clone" release
setupClone(modelType, typedName, typedKey, failure, efile, cfile, default, env) ==
  LET config == loadCredentialsConfig(default, cfile, efile, env)
      named == Named(config, modelType, typedName)
      used == Keyed(named, modelType, typedKey)
  IN IF modelType \in ModelTypes /\ (typedName = "" \/ typedName = Cancel)
     THEN Returned(FALSE, efile, cfile, Selected(config, modelType))
     ELSE IF modelType \in ModelTypes
               /\ (Falsy(typedKey) \/ typedKey = CancelKey)
          THEN Returned(FALSE, efile, cfile, named)
     ELSE IF failure = 1 THEN Returned(FALSE, efile, cfile, used)
     ELSE IF failure = 2
          THEN Returned(FALSE, efile, File(configSaved(used)), used)
     ELSE Returned(TRUE, File(EnvContent(used)), File(configSaved(used)),
                   used)

\* ------------------------------------------------- application: process
\* a .env made by hand as the README tells, with a key and another line
HandMadeEnv ==
  <<<<"NODE_ENV", "=", "d", "e", "v">>, Line(OPENAI_API_KEY, sk \o Chars(7))>>

\* import "dotenv/config": a variable takes the value of the last line
\* `name=value` of .env, all that follows the first "="; the shell that
\* starts the program exports neither variable
DotenvValue(efile, name) ==
  LET found == IF efile.exists
               THEN SelectSeq(efile.content,
                              LAMBDA line : startsWith(line, name))
               ELSE <<>>
  IN IF found = <<>> THEN NoKey
     ELSE SubSeq(Last(found), 3, Len(Last(found)))

Dotenv(efile) == [name \in KeyNames |-> DotenvValue(efile, name)]

\* the conversation loop a release runs
LoopOf(rel) == IF rel = "simple" THEN "continue" ELSE "rethrow"

\* the releases whose main is the menu loop; the main of the "simple"
\* release offers one choice and returns
MenuReleases == {"config", "clone"}

AfterAction == IF release \in MenuReleases THEN "menu" ELSE "exited"

\* no conversation is running: its variables are those of a new process
NoConversation ==
  /\ variant' = LoopOf(release)
  /\ loopPc' = "idle"
  /\ conversationState' = <<>>
  /\ conversationHistory' = <<>>
  /\ messagesToSend' = <<>>
  /\ displayed' = <<>>
  /\ toolsUsed' = <<>>
  /\ event' = "start"
  /\ answer' = Undefined
  /\ turns' = 0
  /\ messages' = <<>>
  /\ node' = "idle"
  /\ step' = 0
  /\ pending' = {}
  /\ outputs' = <<>>
  /\ outOfOrder' = FALSE
  /\ error' = "none"
  /\ modelCalls' = 0
  /\ modelInput' = <<>>
  /\ toolRuns' = 0
  /\ invoked' = <<>>
  /\ UNCHANGED replayVars

AppInit ==
  /\ release \in Releases
  /\ mainPc = "menu"
  /\ envFile \in {NoFile, File(HandMadeEnv)}
  /\ configFile = NoFile
  /\ processEnv = Dotenv(envFile)
  /\ CONFIG_DEFAULT = ConfigDefault(release, processEnv)
  /\ model = NoModel
  /\ report = "none"
  /\ choices = 0
  /\ envOpenai = NoFile
  /\ envGemini = NoFile
  /\ prompts = 0
  /\ variant = LoopOf(release)
  /\ loopPc = "idle"
  /\ conversationState = <<>>
  /\ conversationHistory = <<>>
  /\ messagesToSend = <<>>
  /\ messages = <<>>
  /\ node = "idle"
  /\ step = 0
  /\ pending = {}
  /\ outputs = <<>>
  /\ outOfOrder = FALSE
  /\ error = "none"
  /\ displayed = <<>>
  /\ toolsUsed = <<>>
  /\ event = "start"
  /\ answer = Undefined
  /\ turns = 0
  /\ modelCalls = 0
  /\ modelInput = <<>>
  /\ toolRuns = 0
  /\ invoked = <<>>
  /\ uuidBase = 0
  /\ script = <<>>
  /\ replay = 0
  /\ firstResult = <<>>

\* the program is started again: the modules are loaded anew
Start ==
  /\ UNCHANGED fileVars
  /\ mainPc = "exited"
  /\ mainPc' = "menu"
  /\ processEnv' = Dotenv(envFile)
  /\ CONFIG_DEFAULT' = ConfigDefault(release, processEnv')
  /\ model' = NoModel
  /\ report' = "none"
  /\ NoConversation
  /\ UNCHANGED <<release, envFile, configFile, choices>>

\* ---------------------------------------------------- application: setup
\* what select() returns for the provider
Selections == ModelTypes \cup {Cancel}

\* the configuration setup works on when it asks for the name and the key
Loaded ==
  loadCredentialsConfig(CONFIG_DEFAULT, configFile, envFile, processEnv)

\* what the prompt of the model name returns; no prompt is shown when no
\* provider was selected
NamePrompt(modelType) ==
  IF modelType \notin ModelTypes THEN {Cancel}
  ELSE IF release = "simple"
       THEN TextPrompt({value \in TypedNames :
                          validateModelName(value) = Undefined}, Cancel)
       ELSE TextPrompt({value \in TypedNames :
                          validateModelNameOr(value,
                            Loaded[modelType].modelName) = Undefined},
                       Cancel)

\* what the prompt of the API key returns
KeyPrompt(modelType) ==
  IF modelType \notin ModelTypes THEN {CancelKey}
  ELSE CASE release = "simple" ->
              TextPrompt({value \in TypedKeys :
                            validateApiKey(value, KeyPrefix(modelType))
                              = Undefined}, CancelKey)
         [] release = "config" ->
              TextPrompt({value \in TypedKeys :
                            validateApiKeyOr(value, Loaded[modelType].apiKey,
                                             KeyPrefix(modelType))
                              = Undefined}, CancelKey)
         [] OTHER ->
              TextPrompt({value \in TypedKeys :
                            validateApiKeyOr(value,
                              processEnv[apiKeyEnvVar(modelType)],
                              KeyPrefix(modelType)) = Undefined}, CancelKey)

\* which writeFileSync of the save throws: none, the first, the second
Failures == 0..2

\* the call of setup of the release
setup(modelType, typedName, typedKey, failure) ==
  CASE release = "simple" ->
         setupSimple(modelType, typedName, typedKey, failure, envFile,
                     configFile, CONFIG_DEFAULT)
    [] release = "config" ->
         setupConfig(modelType, typedName, typedKey, failure, envFile,
                     configFile, CONFIG_DEFAULT, processEnv)
    [] OTHER ->
         setupClone(modelType, typedName, typedKey, failure, envFile,
                    configFile, CONFIG_DEFAULT, processEnv)

\* choice "setup" of main: setup runs and main reports what it returned
Setup(modelType, typedName, typedKey, failure) ==
  /\ UNCHANGED fileVars
  /\ mainPc = "menu"
  /\ choices < MaxChoices
  /\ choices' = choices + 1
  /\ LET success == setup(modelType, typedName, typedKey, failure)
     IN /\ envFile' = success.envFile
        /\ configFile' = success.configFile
        /\ CONFIG_DEFAULT' = success.CONFIG_DEFAULT
        /\ report' = IF success.returned THEN "Setup complete"
                     ELSE "Setup failed or was cancelled"
  /\ mainPc' = AfterAction
  /\ UNCHANGED <<release, processEnv, model>>
  /\ UNCHANGED loopVars
  /\ UNCHANGED graphVars
  /\ UNCHANGED replayVars

\* ------------------------------------------------------ application: run
\* mutant: a model type that is not known gets the OpenAI model
getModelFallsBack(credentials, env) ==
  IF ModelUsed(credentials).modelType = OPENAI
  THEN [modelType |-> OPENAI,
        modelName |-> IF ModelUsed(credentials).modelName = "" THEN "gpt-4"
                      ELSE ModelUsed(credentials).modelName,
        apiKey |-> env[OPENAI_API_KEY]]
  ELSE IF ModelUsed(credentials).modelType = GEMINI
       THEN [modelType |-> GEMINI,
             modelName |-> IF ModelUsed(credentials).modelName = ""
                           THEN "gemini-2.5-flash"
                           ELSE ModelUsed(credentials).modelName,
             apiKey |-> env[GOOGLE_API_KEY]]
       ELSE [modelType |-> OPENAI, modelName |-> "gpt-4",
             apiKey |-> env[OPENAI_API_KEY]]

\* getModel(credentials, tools), the model factory of modules/ai that
\* buildWorkflow calls: the class is picked by modelUsed.modelType, and
\* the constructor takes the API key from the environment of the process;
\* NoModel when the type is unknown
getModel(credentials, env) ==
  IF ModelUsed(credentials).modelType = OPENAI
  THEN [modelType |-> OPENAI,
        modelName |-> IF ModelUsed(credentials).modelName = "" THEN "gpt-4"
                      ELSE ModelUsed(credentials).modelName,
        apiKey |-> env[OPENAI_API_KEY]]
  ELSE IF ModelUsed(credentials).modelType = GEMINI
       THEN [modelType |-> GEMINI,
             modelName |-> IF ModelUsed(credentials).modelName = ""
                           THEN "gemini-2.5-flash"
                           ELSE ModelUsed(credentials).modelName,
             apiKey |-> env[GOOGLE_API_KEY]]
       ELSE NoModel

\* new ChatOpenAI and new ChatGoogleGenerativeAI throw when they are given
\* no API key and the environment has none
ConstructorThrows(built) == built # NoModel /\ Falsy(built.apiKey)

\* the keys the providers issued: a request with another key is rejected
IssuedKeys == {sk \o Chars(7), AIza \o Chars(6)}

\* what model.invoke may resolve with in the application: a plain answer,
\* when the provider accepts the key of the model
AppReplies ==
  IF model.apiKey \in IssuedKeys
       /\ IsPrefix(KeyPrefix(model.modelType), model.apiKey)
  THEN {AIMessage(<<"The result is 52.">>, <<>>)}
  ELSE {}

\* the conversation loop starts: conversationState = { messages: [] }
ConversationStarts ==
  /\ variant' = LoopOf(release)
  /\ loopPc' = "prompt"
  /\ conversationState' = <<>>
  /\ turns' = 0
  /\ event' = "start"
  /\ answer' = Undefined
  /\ displayed' = <<>>
  /\ toolsUsed' = <<>>
  /\ UNCHANGED <<conversationHistory, messagesToSend>>
  /\ UNCHANGED graphVars
  /\ UNCHANGED replayVars

\* choice "run" of the main of the "simple" release: runApplication
RunApplication ==
  /\ UNCHANGED fileVars
  /\ mainPc = "menu"
  /\ choices < MaxChoices
  /\ choices' = choices + 1
  /\ release = "simple"
  /\ LET credentials == loadCredentials(configFile, envFile)
     IN IF credentials = null
        THEN /\ report' = "No valid credentials found"
             /\ mainPc' = "exited"
             /\ UNCHANGED <<processEnv, model>>
             /\ UNCHANGED loopVars
             /\ UNCHANGED graphVars
             /\ UNCHANGED replayVars
        ELSE /\ processEnv' =
                  IF credentials.provider \in ModelTypes
                  THEN [processEnv EXCEPT
                          ![apiKeyEnvVar(credentials.provider)] =
                             credentials.apiKey]
                  ELSE processEnv
             /\ IF credentials.modelType \in ModelTypes
                THEN /\ model' =
                          [modelType |-> credentials.modelType,
                           modelName |-> credentials.modelName,
                           apiKey |->
                             processEnv'[apiKeyEnvVar(credentials.modelType)]]
                     /\ report' = "Interactive AI Assistant"
                     /\ mainPc' = "conversation"
                     /\ ConversationStarts
                ELSE /\ report' = "Unknown MODEL_TYPE"
                     /\ mainPc' = "exited"
                     /\ UNCHANGED model
                     /\ UNCHANGED loopVars
                     /\ UNCHANGED graphVars
                     /\ UNCHANGED replayVars
  /\ UNCHANGED <<release, envFile, configFile, CONFIG_DEFAULT>>

\* buildWorkflow up to the compiled graph: the credentials are loaded and
\* the model is built; it throws when there is no model
BuildWorkflowThrows ==
  \/ getModel(Loaded, processEnv) = NoModel
  \/ ConstructorThrows(getModel(Loaded, processEnv))

\* main's catch block inside the loop: the error is logged, the loop goes on
TryToSetupAgain ==
  /\ report' = "Try to setup again"
  /\ mainPc' = "menu"

\* choice "workflow" of main: buildWorkflow, then the graph is printed
ShowWorkflow ==
  /\ UNCHANGED fileVars
  /\ mainPc = "menu"
  /\ choices < MaxChoices
  /\ choices' = choices + 1
  /\ release \in MenuReleases
  /\ CONFIG_DEFAULT' = Loaded
  /\ IF BuildWorkflowThrows
     THEN /\ TryToSetupAgain
          /\ UNCHANGED model
     ELSE /\ model' = getModel(Loaded, processEnv)
          /\ report' = "workflow shown"
          /\ mainPc' = "menu"
  /\ UNCHANGED <<release, envFile, configFile, processEnv>>
  /\ UNCHANGED loopVars
  /\ UNCHANGED graphVars
  /\ UNCHANGED replayVars

\* choice "run" of main: buildWorkflow, then conversation(workflow)
Run ==
  /\ UNCHANGED fileVars
  /\ mainPc = "menu"
  /\ choices < MaxChoices
  /\ choices' = choices + 1
  /\ release \in MenuReleases
  /\ CONFIG_DEFAULT' = Loaded
  /\ IF BuildWorkflowThrows
     THEN /\ TryToSetupAgain
          /\ UNCHANGED model
          /\ UNCHANGED loopVars
          /\ UNCHANGED graphVars
          /\ UNCHANGED replayVars
     ELSE /\ model' = getModel(Loaded, processEnv)
          /\ report' = "Interactive AI Assistant"
          /\ mainPc' = "conversation"
          /\ ConversationStarts
  /\ UNCHANGED <<release, envFile, configFile, processEnv>>

\* the conversation loop was left by its break: the action returns
ConversationEnds ==
  /\ UNCHANGED fileVars
  /\ mainPc = "conversation"
  /\ loopPc = "ended"
  /\ mainPc' = AfterAction
  /\ report' = "Conversation ended"
  /\ NoConversation
  /\ UNCHANGED <<release, envFile, configFile, processEnv, CONFIG_DEFAULT,
                 model, choices>>

\* mutant: the catch block is around the loop, an error ends main
MainCatchOutsideLoop ==
  /\ UNCHANGED fileVars
  /\ mainPc = "conversation"
  /\ loopPc = "thrown"
  /\ report' = "Try to setup again"
  /\ mainPc' = "exited"
  /\ NoConversation
  /\ UNCHANGED <<release, envFile, configFile, processEnv, CONFIG_DEFAULT,
                 model, choices>>

\* conversation() threw the error of the turn: main catches it in the loop
MainCatch ==
  /\ UNCHANGED fileVars
  /\ mainPc = "conversation"
  /\ loopPc = "thrown"
  /\ TryToSetupAgain
  /\ NoConversation
  /\ UNCHANGED <<release, envFile, configFile, processEnv, CONFIG_DEFAULT,
                 model, choices>>

\* choice "exit" of main: break
Exit ==
  /\ UNCHANGED fileVars
  /\ mainPc = "menu"
  /\ release \in MenuReleases
  /\ mainPc' = "exited"
  /\ report' = "Goodbye"
  /\ UNCHANGED <<release, envFile, configFile, processEnv, CONFIG_DEFAULT,
                 model, choices>>
  /\ UNCHANGED loopVars
  /\ UNCHANGED graphVars
  /\ UNCHANGED replayVars

\* the selection was cancelled, so that choice is the cancel symbol
NoOptionSelected ==
  /\ UNCHANGED fileVars
  /\ mainPc = "menu"
  /\ choices < MaxChoices
  /\ choices' = choices + 1
  /\ mainPc' = AfterAction
  /\ report' = "No option selected"
  /\ UNCHANGED <<release, envFile, configFile, processEnv, CONFIG_DEFAULT,
                 model>>
  /\ UNCHANGED loopVars
  /\ UNCHANGED graphVars
  /\ UNCHANGED replayVars

\* what the user types at the prompt of the conversation
AppInputs == {"calculate 15 * 3 + 7", "   ", "/quit", Cancel}

AppNext ==
  \/ \E modelType \in Selections :
       \E typedName \in NamePrompt(modelType) :
         \E typedKey \in KeyPrompt(modelType) :
           \E failure \in Failures :
             Setup(modelType, typedName, typedKey, failure)
  \/ RunApplication
  \/ ShowWorkflow
  \/ Run
  \/ Exit
  \/ NoOptionSelected
  \/ Start
  \/ \E userInput \in AppInputs : Quit(userInput)
  \/ \E userInput \in AppInputs : SkipEmpty(userInput)
  \/ \E userInput \in AppInputs : StartTurn(userInput)
  \/ \E response \in AppReplies : CallModel(response)
  \/ CallModelFails
  \/ Return
  \/ Catch
  \/ ConversationEnds
  \/ MainCatch

AppSpec == AppInit /\ [][AppNext]_vars

\* ------------------------------------------- application: two env files
\* The stage of app.ts keeps the credentials of a provider in a file of
\* its own, .env.openai or .env.gemini, and has no config.json; the
\* stand-alone setup script writes the same three lines to .env.
MODEL_TYPE == "MODEL_TYPE"

MODEL_NAME == "MODEL_NAME"

\* a model name or a model type as the text of a line, and back
Fragment(string) == IF string = "" THEN <<>> ELSE <<string>>

TextOf(chars) == IF chars = <<>> THEN "" ELSE chars[1]

\* `KEY=${apiKey}\nMODEL_TYPE=...\nMODEL_NAME=${specificModel}\n` as the
\* lines split("\n") gives: the text ends with "\n", so the last is empty
CredentialLines(modelType, specificModel, apiKey) ==
  <<Line(apiKeyEnvVar(modelType), apiKey),
    <<MODEL_TYPE, "=">> \o Fragment(modelType),
    <<MODEL_NAME, "=">> \o Fragment(specificModel),
    <<>>>>

\* what the prompts of app.ts and of the setup script return
NamePromptPlain(modelType) ==
  IF modelType \notin ModelTypes THEN {Cancel}
  ELSE TextPrompt({value \in TypedNames :
                     validateModelName(value) = Undefined}, Cancel)

KeyPromptPlain(modelType) ==
  IF modelType \notin ModelTypes THEN {CancelKey}
  ELSE TextPrompt({value \in TypedKeys :
                     validateApiKey(value, KeyPrefix(modelType))
                       = Undefined}, CancelKey)

\* setup of app.ts with what the user selects and types; failure = 1 when
\* writeFileSync throws
setupTwoFile(modelType, typedName, typedKey, failure, ofile, gfile) ==
  LET cancelled == [returned |-> FALSE, envOpenai |-> ofile,
                    envGemini |-> gfile]
      specificModel == trim(typedName)
      written == File(CredentialLines(modelType, specificModel, typedKey))
  IN IF modelType \notin ModelTypes THEN cancelled
     ELSE IF typedName = "" \/ typedName = Cancel THEN cancelled
     ELSE IF Falsy(typedKey) \/ typedKey = CancelKey THEN cancelled
     ELSE IF failure = 1 THEN cancelled
     ELSE IF modelType = OPENAI
          THEN [returned |-> TRUE, envOpenai |-> written,
                envGemini |-> gfile]
          ELSE [returned |-> TRUE, envOpenai |-> ofile,
                envGemini |-> written]

\* modelType, modelName and apiKey before a file is read
NoCredentials == [apiKey |-> <<>>, modelType |-> "", modelName |-> ""]

\* the loop over the lines of a credential file: a line KEY=, MODEL_TYPE=
\* or MODEL_NAME= assigns line.split("=")[1] to its variable
RECURSIVE ReadLines(_, _, _)
ReadLines(lines, keyName, locals) ==
  IF lines = <<>> THEN locals
  ELSE LET line == Head(lines)
           assigned ==
             IF startsWith(line, keyName)
             THEN [locals EXCEPT !.apiKey = SplitEquals1(line)]
             ELSE IF startsWith(line, MODEL_TYPE)
                  THEN [locals EXCEPT
                          !.modelType = TextOf(SplitEquals1(line))]
                  ELSE IF startsWith(line, MODEL_NAME)
                       THEN [locals EXCEPT
                               !.modelName = TextOf(SplitEquals1(line))]
                       ELSE locals
       IN ReadLines(Tail(lines), keyName, assigned)

\* apiKey && modelType && modelName
Complete(locals) ==
  ~Falsy(locals.apiKey) /\ locals.modelType # "" /\ locals.modelName # ""

WithProvider(locals, provider) ==
  [modelType |-> locals.modelType, modelName |-> locals.modelName,
   apiKey |-> locals.apiKey, provider |-> provider]

\* loadCredentials of app.ts: .env.openai is read first and returned when
\* it gives all three values; .env.gemini is read into the same variables
loadCredentialsTwoFile(ofile, gfile) ==
  LET openai == IF ofile.exists
                THEN ReadLines(ofile.content, OPENAI_API_KEY, NoCredentials)
                ELSE NoCredentials
      gemini == IF gfile.exists
                THEN ReadLines(gfile.content, GOOGLE_API_KEY, openai)
                ELSE openai
  IN IF ofile.exists /\ Complete(openai) THEN WithProvider(openai, OPENAI)
     ELSE IF gfile.exists /\ Complete(gemini)
          THEN WithProvider(gemini, GEMINI)
          ELSE null

\* credential files edited by hand: .env.openai after its key line was
\* taken out, .env.gemini with the key alone
StrippedOpenai ==
  <<<<MODEL_TYPE, "=", OPENAI>>, <<MODEL_NAME, "=", "gpt-4">>, <<>>>>

KeyOnlyGemini == <<Line(GOOGLE_API_KEY, AIza \o Chars(6)), <<>>>>

FileInit ==
  /\ release \in {"twofile", "script"}
  /\ mainPc = "menu"
  /\ envFile \in {NoFile, File(HandMadeEnv)}
  /\ configFile = NoFile
  /\ processEnv = Dotenv(envFile)
  /\ CONFIG_DEFAULT = ConfigDefault(release, processEnv)
  /\ model = NoModel
  /\ report = "none"
  /\ choices = 0
  /\ envOpenai \in IF release = "twofile"
                   THEN {NoFile, File(StrippedOpenai)} ELSE {NoFile}
  /\ envGemini \in IF release = "twofile"
                   THEN {NoFile, File(KeyOnlyGemini)} ELSE {NoFile}
  /\ prompts = 0
  /\ variant = LoopOf(release)
  /\ loopPc = "idle"
  /\ conversationState = <<>>
  /\ conversationHistory = <<>>
  /\ messagesToSend = <<>>
  /\ messages = <<>>
  /\ node = "idle"
  /\ step = 0
  /\ pending = {}
  /\ outputs = <<>>
  /\ outOfOrder = FALSE
  /\ error = "none"
  /\ displayed = <<>>
  /\ toolsUsed = <<>>
  /\ event = "start"
  /\ answer = Undefined
  /\ turns = 0
  /\ modelCalls = 0
  /\ modelInput = <<>>
  /\ toolRuns = 0
  /\ invoked = <<>>
  /\ uuidBase = 0
  /\ script = <<>>
  /\ replay = 0
  /\ firstResult = <<>>

\* choice "setup" of the main of app.ts
SetupTwoFile(modelType, typedName, typedKey, failure) ==
  /\ release = "twofile"
  /\ mainPc = "menu"
  /\ choices < MaxChoices
  /\ choices' = choices + 1
  /\ LET success == setupTwoFile(modelType, typedName, typedKey, failure,
                                 envOpenai, envGemini)
     IN /\ envOpenai' = success.envOpenai
        /\ envGemini' = success.envGemini
        /\ report' = IF success.returned THEN "Setup complete"
                     ELSE "Setup failed or was cancelled"
  /\ mainPc' = "exited"
  /\ UNCHANGED <<release, envFile, configFile, processEnv, CONFIG_DEFAULT,
                 model, prompts>>
  /\ UNCHANGED loopVars
  /\ UNCHANGED graphVars
  /\ UNCHANGED replayVars

\* choice "run" of the main of app.ts, up to the model that runApplication
\* builds for the graph: the credentials are loaded and the class is
\* picked by credentials.modelType; the constructor takes the key from the
\* environment of the process and throws when there is none, which ends
\* main in its catch
RunTwoFile ==
  /\ release = "twofile"
  /\ mainPc = "menu"
  /\ choices < MaxChoices
  /\ choices' = choices + 1
  /\ LET credentials == loadCredentialsTwoFile(envOpenai, envGemini)
         built == IF credentials = null THEN NoModel
                  ELSE IF credentials.modelType \in ModelTypes
                       THEN [modelType |-> credentials.modelType,
                             modelName |-> credentials.modelName,
                             apiKey |->
                               processEnv[apiKeyEnvVar(credentials.modelType)]]
                       ELSE NoModel
     IN /\ report' = IF credentials = null
                     THEN "No valid credentials found"
                     ELSE IF built = NoModel THEN "Unknown MODEL_TYPE"
                     ELSE IF ConstructorThrows(built)
                          THEN "Application failed"
                          ELSE "Using the model of the provider"
        /\ model' = IF built # NoModel /\ ~ConstructorThrows(built)
                    THEN built ELSE model
  /\ mainPc' = "exited"
  /\ UNCHANGED <<release, envFile, configFile, processEnv, CONFIG_DEFAULT>>
  /\ UNCHANGED fileVars
  /\ UNCHANGED loopVars
  /\ UNCHANGED graphVars
  /\ UNCHANGED replayVars

\* ------------------------------------------ application: setup script
\* mutant: the answer "exit" is not looked at, the script goes on
AskOverwriteGoesOn(overwrite) ==
  /\ release = "script"
  /\ mainPc = "menu"
  /\ envFile.exists
  /\ choices < MaxChoices
  /\ choices' = choices + 1
  /\ prompts' = 1
  /\ mainPc' = "provider"
  /\ UNCHANGED report
  /\ UNCHANGED <<release, envFile, configFile, processEnv, CONFIG_DEFAULT,
                 model, envOpenai, envGemini>>
  /\ UNCHANGED loopVars
  /\ UNCHANGED graphVars
  /\ UNCHANGED replayVars

\* the script finds a .env file and asks what to do; select() returns
\* "overwrite", "exit" or the cancel symbol: on "exit" the script ends
\* with process.exit(0); on any other answer it goes on to the provider
AskOverwrite(overwrite) ==
  /\ release = "script"
  /\ mainPc = "menu"
  /\ envFile.exists
  /\ choices < MaxChoices
  /\ choices' = choices + 1
  /\ prompts' = 1
  /\ IF overwrite = "exit"
     THEN /\ report' = "Setup cancelled. No changes made."
          /\ mainPc' = "exited"
     ELSE /\ mainPc' = "provider"
          /\ UNCHANGED report
  /\ UNCHANGED <<release, envFile, configFile, processEnv, CONFIG_DEFAULT,
                 model, envOpenai, envGemini>>
  /\ UNCHANGED loopVars
  /\ UNCHANGED graphVars
  /\ UNCHANGED replayVars

\* the prompts the script shows from the provider selection on: the name
\* is asked when a provider was selected, the key when a name was given
PromptsShown(modelType, typedName) ==
  IF modelType \notin ModelTypes THEN 1
  ELSE IF typedName = "" \/ typedName = Cancel THEN 2
  ELSE 3

\* the script from the provider selection to its end: it asks for the
\* provider, the model name and the key, ends with process.exit(1) when
\* one is missing, and writes the three lines to .env; failure = 1 when
\* writeFileSync throws
ScriptSetup(modelType, typedName, typedKey, failure) ==
  /\ release = "script"
  /\ \/ /\ mainPc = "menu"
        /\ ~envFile.exists
        /\ choices < MaxChoices
        /\ choices' = choices + 1
        /\ prompts' = PromptsShown(modelType, typedName)
     \/ /\ mainPc = "provider"
        /\ prompts' = prompts + PromptsShown(modelType, typedName)
        /\ UNCHANGED choices
  /\ IF modelType \notin ModelTypes \/ typedName = "" \/ typedName = Cancel
     THEN /\ report' = "No valid model name provided. Setup cancelled."
          /\ UNCHANGED envFile
     ELSE IF Falsy(typedKey) \/ typedKey = CancelKey
          THEN /\ report' = "No API key provided. Setup cancelled."
               /\ UNCHANGED envFile
          ELSE IF failure = 1
               THEN /\ report' = "Failed to save configuration"
                    /\ UNCHANGED envFile
               ELSE /\ report' = "Setup complete"
                    /\ envFile' = File(CredentialLines(modelType,
                                         trim(typedName), typedKey))
  /\ mainPc' = "exited"
  /\ UNCHANGED <<release, configFile, processEnv, CONFIG_DEFAULT, model,
                 envOpenai, envGemini>>
  /\ UNCHANGED loopVars
  /\ UNCHANGED graphVars
  /\ UNCHANGED replayVars

FileNext ==
  \/ \E modelType \in Selections :
       \E typedName \in NamePromptPlain(modelType) :
         \E typedKey \in KeyPromptPlain(modelType) :
           \E failure \in 0..1 :
             SetupTwoFile(modelType, typedName, typedKey, failure)
  \/ RunTwoFile
  \/ release = "twofile" /\ NoOptionSelected
  \/ \E overwrite \in {"overwrite", "exit", Cancel} :
       AskOverwrite(overwrite)
  \/ \E modelType \in Selections :
       \E typedName \in NamePromptPlain(modelType) :
         \E typedKey \in KeyPromptPlain(modelType) :
           \E failure \in 0..1 :
             ScriptSetup(modelType, typedName, typedKey, failure)
  \/ Start

FileSpec == FileInit /\ [][FileNext]_vars

\* ------------------------------------------------------------ views
\* the history the conversation loop keeps between turns
Held == IF variant = "manual" THEN conversationHistory ELSE conversationState

\* the sequence the loop handed to invoke for the turn in flight
Passed == IF variant = "manual" THEN messagesToSend ELSE conversationState

\* a message as the conversation shows it: role, content, ToolCalls, call id
\* and tool name, without the id the reducer stamps on it
View(m) == [m EXCEPT !.id = 0]

Views(msgs) == [i \in 1..Len(msgs) |-> View(msgs[i])]

IsReply(m) == m.type = "ai" /\ m.tool_calls = <<>>

HasToolCalls(m) == m.type = "ai" /\ Len(m.tool_calls) > 0

\* ------------------------------------------------------------ claims

\* C1: when the model answers with an assistant message without ToolCalls,
\* the graph is at __end__ at once; if that was the first model call of the
\* turn, the messages are the sequence passed in plus that one assistant
\* message, and no tool was executed.
C1_NoToolCallsEndsTurn ==
  (InFlight /\ Len(messages) > 0 /\ IsReply(Last(messages)))
    => /\ node = "__end__"
       /\ pending = {}
       /\ modelCalls = 1 =>
            /\ toolRuns = 0
            /\ messages = Append(Passed, Last(messages))
            /\ \A i \in 1..Len(messages) :
                 messages[i].type = "tool" => i <= Len(Passed)

C1_Witness ==
  /\ InFlight
  /\ node = "__end__"
  /\ modelCalls = 1
  /\ IsReply(Last(messages))
  /\ Len(messages) = Len(Passed) + 1

\* the graph positions as the states of the agent loop
AwaitingModel == InFlight /\ node = "agent"

HasToolCallsState == InFlight /\ node \in {"tools", "tools_running"}

Done == Resolved

\* C2: the loop moves AWAITING_MODEL -> HAS_TOOL_CALLS exactly when the
\* reply just appended has at least one ToolCall and AWAITING_MODEL -> DONE
\* exactly when it has none; the tools step is entered from nowhere else,
\* leaves only towards the model, and after DONE the invocation calls no
\* model, runs no tool and appends nothing. (An invocation may also end in
\* an error from AWAITING_MODEL or, at the step limit, before the tools run.)
C2_StateMachine ==
  [][/\ (AwaitingModel /\ node' # "agent") =>
          \/ node' = "tools" /\ HasToolCalls(Last(messages'))
          \/ node' = "__end__" /\ IsReply(Last(messages'))
          \/ node' = "failed"
     /\ (node' = "tools" /\ node # "tools") => AwaitingModel
     /\ (node = "tools" /\ node' # "tools") =>
          node' \in {"tools_running", "failed"}
     /\ (node = "tools_running" /\ node' # "tools_running") =>
          (node' = "agent" /\ pending = {})
     /\ Done =>
          /\ node' \in {"__end__", "idle"}
          /\ modelCalls' \in {modelCalls, 0}
          /\ toolRuns' \in {toolRuns, 0}
          /\ messages' \in {messages, <<>>}
          /\ node' = "idle" => loopPc' = "prompt"]_vars

C2_Witness ==
  /\ Done
  /\ modelCalls = 2
  /\ toolRuns >= 1
  /\ \E i \in 1..Len(messages) : HasToolCalls(messages[i])

\* the ToolCalls of assistant message i that a tool message at j answers
Answers(msgs, i, j) ==
  {k \in 1..Len(msgs[i].tool_calls) :
     msgs[i].tool_calls[k].id = msgs[j].tool_call_id}

\* the nearest assistant message before position j (0 when there is none)
NearestAssistant(msgs, j) ==
  MaxOf({i \in 1..(j - 1) : msgs[i].type = "ai"})

\* every tool message answers a ToolCall of the nearest assistant message
\* before it
ToolResultsMatch(msgs) ==
  \A j \in 1..Len(msgs) :
    msgs[j].type = "tool" =>
      /\ NearestAssistant(msgs, j) > 0
      /\ Answers(msgs, NearestAssistant(msgs, j), j) # {}

\* every ToolCall in msgs has exactly one tool message, after its request
AllAnsweredOnce(msgs) ==
  \A i \in 1..Len(msgs) :
    \A k \in 1..Len(msgs[i].tool_calls) :
      Cardinality({j \in (i + 1)..Len(msgs) :
                     /\ msgs[j].type = "tool"
                     /\ msgs[j].tool_call_id = msgs[i].tool_calls[k].id}) = 1

\* C3: in the messages of an invocation and in the history the loop keeps,
\* every tool-result carries the id of a ToolCall of the nearest preceding
\* assistant message; and whenever the model is about to be called, every
\* ToolCall requested so far has exactly one tool-result.
C3_ToolResultsAnswerCalls ==
  /\ ToolResultsMatch(messages)
  /\ ToolResultsMatch(Held)
  /\ AwaitingModel => AllAnsweredOnce(messages)
  /\ AllAnsweredOnce(Held)

C3_Witness ==
  /\ AwaitingModel
  /\ step < RecursionLimit
  /\ \E i \in 1..Len(messages) : Len(messages[i].tool_calls) >= 2
  /\ \E i \in 1..Len(Held) : Len(Held[i].tool_calls) >= 1

\* the tool-results ToolNode owes for the ToolCalls of message m, in order
ResultsOf(m) == [k \in 1..Len(m.tool_calls) |-> RunTool(m.tool_calls[k])]

\* C4: when the tools step ends, the messages are extended by exactly the
\* results of the ToolCalls [c1..cn] of the assistant message that was
\* last, as [result(c1)..result(cn)], whatever order the calls settled in.
C4_ResultsInCallOrder ==
  [][(node = "tools_running" /\ node' # "tools_running") =>
       /\ HasToolCalls(Last(messages))
       /\ Views(messages') = Views(messages) \o ResultsOf(Last(messages))
       /\ SubSeq(messages', 1, Len(messages)) = messages]_vars

\* all calls of a two-call message have settled, the second one first
C4_Witness ==
  /\ node = "tools_running"
  /\ pending = {}
  /\ outOfOrder
  /\ Len(Last(messages).tool_calls) >= 2
  /\ Last(messages).tool_calls[1].name # Last(messages).tool_calls[2].name

\* C5: messages are only ever appended: within an invocation the messages
\* before a step are a prefix of those after it, the history the loop keeps
\* only grows across turns, and the sequence a turn returns extends the
\* sequence it was passed (and is the history kept, in the loops that keep
\* the response).
C5_AppendOnly ==
  [][/\ (InFlight /\ node' # "idle") => IsPrefix(messages, messages')
     /\ IsPrefix(Views(Held), Views(Held'))
     /\ (Done /\ node' = "idle") =>
          /\ IsPrefix(Passed, messages)
          /\ Len(messages) > Len(Passed)
          /\ variant # "pushonly" => Views(Held') = Views(messages)]_vars

C5_Witness ==
  /\ turns = 2
  /\ event = "reply"
  /\ Len(Held) >= 6
  /\ \E i \in 1..Len(Held) : Held[i].type = "tool"

\* C6: when a turn returns normally, the last message of the sequence it
\* returns is an assistant message without ToolCalls and its content is
\* what is printed as the assistant's reply; in the loops that keep the
\* response it is the last message held afterwards.
C6_ReplyIsLastMessage ==
  [][(Done /\ node' = "idle") =>
       /\ IsReply(Last(messages))
       /\ displayed' = Last(messages).content
       /\ event' = "reply"
       /\ variant # "pushonly" =>
            (Len(Held') > 0 /\ View(Last(Held')) = View(Last(messages)))]_vars

C6_Witness ==
  /\ loopPc = "prompt"
  /\ event = "reply"
  /\ Len(Held) >= 2
  /\ Held[Len(Held) - 1].type = "tool"

Failed == Rejected

\* some step of the invocation can be taken
CanStep ==
  \/ AgentDue
  \/ ToolsDue
  \/ \E k \in 1..(MaxCalls + 1) : ToolRunning(k)
  \/ ToolsSettled
  \/ OutOfSteps
  \/ Resolved
  \/ Rejected

\* steps an invocation can still take: every graph step lowers it
Rank ==
  (RecursionLimit - step) * (MaxCalls + 5)
    + (CASE node = "agent" -> 2
         [] node = "tools" -> MaxCalls + 3
         [] node = "tools_running" -> Cardinality(pending) + 2
         [] OTHER -> 1)

\* C7: every turn ends: an invocation in flight can always take a step and
\* every step it takes lowers a natural-number rank, so it is left (resolved
\* or rejected) after finitely many steps; one that is rejected carries
\* GraphRecursionError exactly when the step limit was reached and
\* ModelInvocationError exactly when the model rejected (a failing tool
\* rejects nothing); the error reaches the catch block of the loop, which
\* hands it on unchanged where it rethrows.
C7_TurnTerminates ==
  /\ [](InFlight => (Rank \in Nat /\ CanStep))
  /\ [][(InFlight /\ InFlight') => Rank' < Rank]_vars
  /\ [](Failed =>
          /\ error \in {"GraphRecursionError", "ModelInvocationError"}
          /\ (error = "GraphRecursionError") = (step >= RecursionLimit))
  /\ [][Failed =>
          /\ ~InFlight'
          /\ event' = "error"
          /\ variant = "rethrow" => (loopPc' = "thrown" /\ error' = error)]_vars

C7_Witness ==
  /\ variant = "rethrow"
  /\ loopPc = "thrown"
  /\ error = "GraphRecursionError"
  /\ event = "error"

\* a step in which the model was called and nothing was appended
ModelCallRejected ==
  /\ AwaitingModel
  /\ modelCalls' = modelCalls + 1
  /\ messages' = messages

\* C8: a model call that rejects fails the invocation with that error; from
\* the failed invocation the only step is the catch block of the caller (no
\* model call, no tool execution), which logs the error and, in the loop
\* that rethrows, throws that same error on.
C8_ModelFailurePropagates ==
  [][/\ ModelCallRejected =>
          (node' = "failed" /\ error' = "ModelInvocationError")
     /\ (Failed /\ error = "ModelInvocationError") =>
          /\ ~InFlight'
          /\ node' = "idle"
          /\ event' = "error"
          /\ variant = "rethrow" => (loopPc' = "thrown" /\ error' = error)
          /\ variant # "rethrow" => loopPc' = "prompt"]_vars

C8_Witness ==
  /\ variant = "rethrow"
  /\ loopPc = "thrown"
  /\ error = "ModelInvocationError"
  /\ event = "error"

\* C9: from the call of invoke until the invocation has resolved, no step,
\* and in particular not the catch block after a failure, changes the
\* sequence the caller holds: after a failed turn it holds the sequence it
\* passed (without the new user message in the loop that builds a separate
\* array), and no assistant or tool-result message of the turn.
C9_FailedTurnLeavesState ==
  [][(InFlight /\ ~(Done /\ node' = "idle")) =>
       /\ Held' = Held
       /\ conversationState' = conversationState
       /\ conversationHistory' = conversationHistory
       /\ ~InFlight' =>
            /\ IsPrefix(Views(Held'), Views(Passed))
            /\ Len(Held') =
                 (IF variant = "manual" THEN Len(Passed) - 1 ELSE Len(Passed))]_vars

C9_Witness ==
  /\ Failed
  /\ error = "ModelInvocationError"
  /\ toolRuns >= 1
  /\ Len(messages) > Len(Passed) + 1
  /\ Len(Held) <= Len(Passed)

Mentions(content, text) == \E p \in 1..Len(content) : content[p] = text

\* C10: a ToolCall for a name that is not in the registry gets a tool
\* message at its place among the results whose content is an error text
\* with the name in it; the invocation does not fail for it (it fails only
\* for a model error or the step limit), and with the results appended the
\* model is due next.
C10_UnknownToolIsAnswered ==
  /\ \A i \in 1..Len(messages) :
       \A k \in 1..Len(messages[i].tool_calls) :
         (messages[i].tool_calls[k].name \notin ToolNames
            /\ Len(messages) > i) =>
           /\ Len(messages) >= i + k
           /\ messages[i + k].type = "tool"
           /\ messages[i + k].tool_call_id = messages[i].tool_calls[k].id
           /\ Head(messages[i + k].content) = "Error: "
           /\ Mentions(messages[i + k].content, messages[i].tool_calls[k].name)
  /\ Failed => error \in {"GraphRecursionError", "ModelInvocationError"}
  /\ (InFlight /\ Len(messages) > 0 /\ Last(messages).type = "tool") =>
       node \in {"agent", "failed"}

C10_Witness ==
  /\ Done
  /\ modelCalls = 2
  /\ \E j \in 1..Len(messages) :
       /\ messages[j].type = "tool"
       /\ messages[j].name = "frobnicate"
       /\ Mentions(messages[j].content, "frobnicate")

\* the error a registered tool's execution runs into for this call: the
\* text of what its _call throws or catches ("" when it runs into none)
ErrorText(call) ==
  CASE call.name \notin ToolNames -> ""
    [] Throws(call) -> Head(ToolCall(call.name, parse(call.args)).content)
    [] call.name = "calculator" /\ parse(call.args) = Undefined ->
         TypeError("replace").text
    [] call.name = "calculator" /\ Eval(Sanitize(parse(call.args))).threw ->
         Eval(Sanitize(parse(call.args))).text
    [] call.name = "get_time" /\ parse(call.args) = Undefined ->
         TypeError("toLowerCase").text
    [] OTHER -> ""

ExecutionFails(call) == ErrorText(call) # ""

\* C11: a ToolCall whose execution fails (eval throws on the expression, or
\* the arguments lack the input and the tool throws) gets a tool-result at
\* its place with the error text in it, every ToolCall of the same
\* assistant message has its result as well, the tools step leads only to
\* the model, and no invocation is rejected with an error of a tool.
C11_ToolFailureIsAnswered ==
  /\ [](\A i \in 1..Len(messages) :
          \A k \in 1..Len(messages[i].tool_calls) :
            (ExecutionFails(messages[i].tool_calls[k]) /\ Len(messages) > i)
              => /\ Len(messages) >= i + Len(messages[i].tool_calls)
                 /\ \A j \in 1..Len(messages[i].tool_calls) :
                      /\ messages[i + j].type = "tool"
                      /\ messages[i + j].tool_call_id =
                           messages[i].tool_calls[j].id
                 /\ Mentions(messages[i + k].content,
                             ErrorText(messages[i].tool_calls[k])))
  /\ [](Failed => error \in {"GraphRecursionError", "ModelInvocationError"})
  /\ [][(/\ node = "tools_running"
          /\ \E k \in 1..Len(Last(messages).tool_calls) :
               ExecutionFails(Last(messages).tool_calls[k]))
           => \/ node' = "tools_running"
              \/ node' = "agent" /\ Last(messages').type = "tool"]_vars

\* a turn is done in which a tool threw for the first of two ToolCalls
C11_Witness ==
  /\ Done
  /\ modelCalls = 2
  /\ \E i \in 1..Len(messages) :
       /\ Len(messages[i].tool_calls) = 2
       /\ Throws(messages[i].tool_calls[1])
       /\ Head(messages[i + 1].content) = "Error: "
       /\ messages[i + 2].content = CalculatorTool("15*3+7").content

\* C12: conversation memory, turn by turn: when a turn returns, the loop
\* holds every message of the sequence the turn returned; between turns
\* what it holds does not change; and the sequence given to the first model
\* call of the next turn is what it holds followed by the new user message.
C12_ConversationMemory ==
  [][/\ (Done /\ node' = "idle") => Views(Held') = Views(messages)
     /\ (loopPc = "prompt" /\ loopPc' # "invoke") => Held' = Held
     /\ (loopPc = "prompt" /\ loopPc' = "invoke") =>
          /\ node' = "agent"
          /\ modelCalls' = 0
          /\ Len(messages') = Len(Held) + 1
          /\ IsPrefix(Views(Held), Views(messages'))
          /\ Last(messages').type = "human"]_vars

\* the messages of kind `type` the turn in flight has appended
Appended(type) ==
  {i \in (Len(Passed) + 1)..Len(messages) : messages[i].type = type}

\* C13: every model call of a turn is given the whole messages of the
\* invocation as they are at that moment: they start with the sequence the
\* loop passed, hold one assistant message for every earlier model call of
\* the turn and one tool-result for every tool executed, and whatever was
\* given to an earlier call of the turn is a prefix of them.
C13_ModelIsGivenAllMessages ==
  [][modelCalls' = modelCalls + 1 =>
       /\ modelInput' = messages
       /\ IsPrefix(Passed, modelInput')
       /\ IsPrefix(modelInput, modelInput')
       /\ Cardinality(Appended("ai")) = modelCalls
       /\ Cardinality(Appended("tool")) = toolRuns
       /\ Cardinality(Appended("human")) = 0
       /\ Len(modelInput') = Len(Passed) + modelCalls + toolRuns]_vars

\* the second model call of a second turn was given the history, the
\* assistant message with two ToolCalls and both results
C13_Witness ==
  /\ InFlight
  /\ turns = 2
  /\ modelCalls = 2
  /\ Len(Passed) >= 3
  /\ Len(modelInput) = Len(Passed) + 3
  /\ Last(modelInput).type = "tool"

\* the second run of a replayed turn has resolved
Replayed == replay = 2 /\ Resolved

\* C14 as stated: the second run of a turn, from the same input and with
\* the same replies of the model, returns the very sequence the first run
\* returned, value for value.
C14_ReplayIsIdentical == Replayed => messages = firstResult

\* C14, amended: the second run returns the sequence the first run returned
\* in everything but the ids the reducer gave the messages: the same roles,
\* contents, ToolCalls, call ids and tool names, in the same order, whatever
\* order the tool executions settled in.
C14_ReplayHasSameMessages ==
  Replayed =>
    /\ Views(messages) = Views(firstResult)
    /\ IsPrefix(Views(conversationState), Views(messages))

\* both runs executed two tools, and the ids of the messages differ
C14_Witness ==
  /\ Replayed
  /\ toolRuns = 2
  /\ Len(firstResult) = Len(conversationState) + 4
  /\ messages # firstResult

\* C15: with the input [user] and a model that first requests one ToolCall
\* and then answers without ToolCalls, the invocation resolves with exactly
\* [user, that assistant message, the tool-result of its call, the answer],
\* after two model calls and one tool execution; for the calculator call
\* 15*3+7 the tool-result says the result is 52.
C15_OneToolCallScenario ==
  (/\ Resolved
   /\ Len(conversationState) = 1
   /\ Len(script) = 2
   /\ Len(script[1].tool_calls) = 1)
    => /\ Views(messages) =
            Views(conversationState)
              \o <<View(script[1]),
                    View(RunTool(script[1].tool_calls[1])),
                    View(script[2])>>
       /\ modelCalls = 2
       /\ toolRuns = 1
       /\ (/\ script[1].tool_calls[1].name = Plain.name
           /\ script[1].tool_calls[1].args = Plain.args)
            => /\ messages[3].content = <<"Result of ", "15*3+7", " = ", "52">>
               /\ messages[3].name = "calculator"
               /\ messages[3].tool_call_id = messages[2].tool_calls[1].id

C15_Witness ==
  /\ Resolved
  /\ Len(conversationState) = 1
  /\ Len(messages) = 4
  /\ Len(script) = 2
  /\ script[1].tool_calls = WithIds(<<Plain>>, 1)
  /\ messages[3].type = "tool"
  /\ messages[4].content = <<"The result is 52.">>

Count(msgs, type) == Cardinality({i \in 1..Len(msgs) : msgs[i].type = type})

\* C16 as stated: the state is empty before the first turn, a user turn
\* adds one user message, and an invocation that returns has added exactly
\* one assistant message, besides tool-results.
C16_OneAssistantPerInvocation ==
  [][/\ turns = 0 => Held = <<>>
     /\ (loopPc = "prompt" /\ loopPc' = "invoke") =>
          Count(messages', "human") = Count(Held, "human") + 1
     /\ (Done /\ node' = "idle") =>
          /\ Cardinality(Appended("human")) = 0
          /\ Cardinality(Appended("ai")) = 1]_vars

\* C16, amended: the state is empty before the first turn; starting a turn
\* adds exactly one user message to what is passed to the graph (and to
\* what the loop holds, except in the loop that builds a separate array,
\* which adds it when the turn returns); an invocation that returns has
\* added no user message, exactly one assistant message per model call, the
\* last of them without ToolCalls, and one tool-result per tool executed;
\* the loops keep all of it, the loop that never assigns the response none.
C16_GrowthPerTurn ==
  [][/\ turns = 0 => Held = <<>>
     /\ (loopPc = "prompt" /\ loopPc' = "invoke") =>
          /\ Views(messages') = Append(Views(Held), View(Last(messages')))
          /\ Last(messages').type = "human"
          /\ Views(Held') =
               (IF variant = "manual" THEN Views(Held) ELSE Views(messages'))
     /\ (loopPc = "prompt" /\ loopPc' # "invoke") => Held' = Held
     /\ (InFlight /\ node' = "idle" /\ ~Done) => Held' = Held
     /\ (Done /\ node' = "idle") =>
          /\ IsPrefix(Passed, messages)
          /\ Cardinality(Appended("human")) = 0
          /\ Cardinality(Appended("ai")) = modelCalls
          /\ modelCalls >= 1
          /\ Cardinality(Appended("tool")) = toolRuns
          /\ Len(messages) = Len(Passed) + modelCalls + toolRuns
          /\ Count(Held', "human") = Count(Passed, "human")
          /\ Count(Held', "ai") =
               Count(Held, "ai") + (IF variant = "pushonly" THEN 0
                                    ELSE modelCalls)
          /\ Count(Held', "tool") =
               Count(Held, "tool") + (IF variant = "pushonly" THEN 0
                                      ELSE toolRuns)]_vars

\* the manual-history loop after a second turn that called the model twice
C16_Witness ==
  /\ variant = "manual"
  /\ turns = 2
  /\ event = "reply"
  /\ Count(Held, "human") = 2
  /\ Count(Held, "ai") = 3
  /\ Count(Held, "tool") >= 1

\* the ToolCalls requested in the messages the turn in flight has appended
NewCalls == CallsIn(SubSeq(messages, Len(Passed) + 1, Len(messages)))

\* C17: the calls a loop prints under "Tools used:" when a turn returns are
\* the ToolCalls of the messages that turn appended, and no call of an
\* earlier turn.
C17_ToolsUsedThisTurnOnly ==
  [][(Done /\ node' = "idle" /\ variant # "manual") =>
       toolsUsed' = NewCalls]_vars

\* C18: when an invocation has failed, the next step of the loop reports
\* the error and is back at the prompt of the same conversation, holding
\* the history it held.
C18_FailedTurnPromptsAgain ==
  [][Failed => /\ event' = "error"
               /\ loopPc' = "prompt"
               /\ Held' = Held]_vars

\* C19: the graph runs only while the loop awaits invoke, and while an
\* invocation is in flight the loop does nothing of its own: it reads no
\* input, starts no turn and pushes no user message; the invocation in
\* flight goes on (its steps and model calls never start over) until it
\* has resolved or rejected, and only then does the loop take its next step.
C19_OneTurnInFlight ==
  /\ [](InFlight <=> node # "idle")
  /\ [][InFlight =>
          /\ turns' = turns
          /\ event' \in {event, "reply", "error"}
          /\ ~InFlight' <=> event' # event
          /\ ~(Done \/ Failed) =>
               /\ InFlight'
               /\ Held' = Held
               /\ Passed' = Passed
               /\ step' >= step
               /\ modelCalls' >= modelCalls
               /\ IsPrefix(messages, messages')
          /\ ~Done => Count(Held', "human") = Count(Held, "human")]_vars

\* the tools of a second turn are running
C19_Witness ==
  /\ InFlight
  /\ turns = 2
  /\ node = "tools_running"
  /\ Cardinality(pending) = 1
  /\ modelCalls = 1

\* the ToolCalls of the turn in flight whose tools step has started
StartedCalls ==
  IF node = "tools" \/ (node = "failed" /\ HasToolCalls(Last(messages)))
  THEN CallsIn(SubSeq(messages, Len(Passed) + 1, Len(messages) - 1))
  ELSE NewCalls

\* C20: the execution functions invoked in an invocation are, in order,
\* exactly one per ToolCall of a registered tool that the model requested in
\* this turn and whose tools step has started, each with the input of its
\* own call: none is run twice, none for a call of an earlier turn or for a
\* tool that does not exist; and the list changes only when a tools step
\* starts, by the calls of the last assistant message.
C20_OneExecutionPerToolCall ==
  /\ [](InFlight => invoked = Executions(StartedCalls))
  /\ [](~InFlight => invoked = <<>>)
  /\ [][(InFlight' /\ invoked' # invoked) =>
          /\ node = "tools"
          /\ node' = "tools_running"
          /\ HasToolCalls(Last(messages))
          /\ invoked' = invoked \o Executions(Last(messages).tool_calls)
          /\ Len(invoked') <= toolRuns']_vars

\* a second turn, after a turn that used a tool, has run a registered and
\* an unknown tool: one execution
C20_Witness ==
  /\ InFlight
  /\ turns = 2
  /\ node = "agent"
  /\ Len(CallsIn(Passed)) >= 1
  /\ toolRuns = 2
  /\ Len(invoked) = 1

\* the loops whose prompt says "Type '/quit' to exit"
SlashQuitLoops == {"rethrow", "continue", "pushonly"}

\* C21: in the loops that announce /quit, when the prompt returns /quit in
\* any letter case, or the cancel symbol, the loop is left in that very step:
\* no user message is appended to what the loop holds, no invocation is
\* started and no model called; and once the loop is left it takes no
\* further step, so no input is read any more.
C21_QuitEndsLoop ==
  /\ [][(/\ loopPc = "prompt"
          /\ variant \in SlashQuitLoops
          /\ (answer' = Cancel \/ toLowerCase(answer') = "/quit"))
           => /\ loopPc' = "ended"
              /\ event' = "quit"
              /\ conversationState' = conversationState
              /\ Held' = Held
              /\ turns' = turns
              /\ node' = "idle"
              /\ messages' = <<>>
              /\ modelCalls' = 0]_vars
  /\ [][loopPc # "ended"]_vars

\* the loop was left on /QUIT after a turn that it had answered
C21_Witness ==
  /\ variant = "continue"
  /\ loopPc = "ended"
  /\ answer = "/QUIT"
  /\ turns = 1
  /\ Len(Held) >= 2

\* the calls of the tools step in flight that have finished
Finished == DOMAIN outputs

\* C26 as stated: the ToolCalls of one assistant message are executed one
\* after the other: while the k-th call is executing, every call before it
\* has finished.
C26_ToolsRunSequentially ==
  node = "tools_running" =>
    \A k \in pending : \A j \in 1..(k - 1) : j \in Finished

\* C26, amended: the tools step starts the execution of all ToolCalls of the
\* last assistant message together, in the order the model returned them;
\* while it runs every call is either executing or finished, and a call may
\* finish while calls before it still execute; the step ends when all have
\* finished, and the results are appended in the order of the ToolCalls.
C26_ToolsStartTogether ==
  /\ [][(node = "tools" /\ node' = "tools_running") =>
          /\ pending' = 1..Len(Last(messages).tool_calls)
          /\ Finished' = {}
          /\ invoked' = invoked \o Executions(Last(messages).tool_calls)]_vars
  /\ [](node = "tools_running" =>
          /\ pending \cup Finished = 1..Len(Last(messages).tool_calls)
          /\ pending \cap Finished = {})
  /\ [][(node = "tools_running" /\ pending # {} /\ node' = "tools_running")
          => /\ \E k \in pending : pending' = pending \ {k}
             /\ messages' = messages]_vars
  /\ [][(node = "tools_running" /\ node' # "tools_running") =>
          /\ pending = {}
          /\ \A k \in 1..Len(Last(messages).tool_calls) :
               View(messages'[Len(messages) + k]) = View(outputs[k])]_vars

\* the second call has finished while the first one is still executing
C26_Witness ==
  /\ node = "tools_running"
  /\ pending = {1}
  /\ Finished = {2}
  /\ outOfOrder

\* an input that is empty or made of white space only
Blank(text) == text \in {"", "   "}

\* C28: when the prompt returns an empty or a blank line, the loop goes
\* back to the prompt in that step and nothing else happens: what the loop
\* holds, the number of turns and what was displayed are unchanged, no
\* invocation is started and no model called.
C28_BlankInputIsSkipped ==
  [][(loopPc = "prompt" /\ Blank(answer')) =>
       /\ loopPc' = "prompt"
       /\ event' = "skip"
       /\ conversationState' = conversationState
       /\ conversationHistory' = conversationHistory
       /\ messagesToSend' = messagesToSend
       /\ Held' = Held
       /\ turns' = turns
       /\ displayed' = displayed
       /\ toolsUsed' = toolsUsed
       /\ node' = "idle"
       /\ messages' = <<>>
       /\ modelCalls' = 0]_vars

\* a blank line was skipped after a turn with a tool, in the manual loop
C28_Witness ==
  /\ variant = "manual"
  /\ loopPc = "prompt"
  /\ event = "skip"
  /\ answer = "   "
  /\ turns = 1
  /\ Len(Held) >= 4

\* no user message of msgs is followed by another user message
NoConsecutiveUserMessages(msgs) ==
  \A i \in 1..(Len(msgs) - 1) :
    ~(msgs[i].type = "human" /\ msgs[i + 1].type = "human")

\* C29: in the loop of workflow.ts, which catches the error of a turn and
\* prompts again, the messages given to the model never hold two user
\* messages in a row: every user message but the newest is followed by an
\* assistant message.
C29_NoConsecutiveUserMessages ==
  variant = "continue" => NoConsecutiveUserMessages(modelInput)

\* both loops have answered the same turns
TwinsAnswered == replay = 2 /\ loopPc = "prompt" /\ event = "reply"

\* C27: after every turn that both loops have answered, for the same inputs
\* and the same replies of the model and results of the tools, the loop
\* that rebuilds its array from conversationHistory and the slice of new
\* messages holds the message sequence that conversation() holds as
\* conversationState: the same roles, contents, ToolCalls, call ids and
\* tool names in the same order.
C27_ManualHistoryEqualsState ==
  TwinsAnswered =>
    /\ Views(conversationHistory) = Views(conversationState)
    /\ firstResult = conversationHistory
    /\ Len(conversationState) >= 2 * turns

\* two turns, the first of them with a tool, answered by both loops
C27_Witness ==
  /\ TwinsAnswered
  /\ turns = 2
  /\ Len(conversationState) >= 6
  /\ conversationState[3].type = "tool"
  /\ Len(conversationHistory) = Len(conversationState)

\* C30: the menu loop of main ends only by the choice "exit": the step
\* that leaves the loop is Exit, every other step taken at the menu (setup,
\* the workflow display, a cancelled selection, an action that threw)
\* shows the menu again or starts the conversation, and a conversation
\* that ended or threw leads back to the menu.
C30_MenuEndsOnlyOnExit ==
  [][(release \in MenuReleases) =>
       /\ (mainPc # "exited" /\ mainPc' = "exited") => Exit
       /\ (mainPc = "menu" /\ choices' # choices) =>
            (\/ mainPc' = "menu"
             \/ mainPc' = "conversation" /\ loopPc' = "prompt")
       /\ (mainPc = "conversation" /\ loopPc \in {"ended", "thrown"}) =>
            (mainPc' = "menu")]_vars

\* a conversation threw, main caught the error and shows the menu
C30_Witness ==
  /\ release \in MenuReleases
  /\ mainPc = "menu"
  /\ report = "Try to setup again"
  /\ model # NoModel
  /\ choices >= 1

\* the typed names and keys that pass the validation of the prompts on
\* their own, without a fallback
ValidNames == {value \in TypedNames : validateModelName(value) = Undefined}

ValidKeys(modelType) ==
  {value \in TypedKeys :
     validateApiKey(value, KeyPrefix(modelType)) = Undefined}

\* C25: when the user selects a provider and enters a model name and an
\* API key that pass validation, and both file writes succeed, setup
\* returns true, config.json and .env exist, and .env holds the key in the
\* variable of the provider.
C25_ValidInputsAreSaved ==
  [][(\A modelType \in ModelTypes :
       \A typedName \in ValidNames :
         \A typedKey \in ValidKeys(modelType) :
           Setup(modelType, typedName, typedKey, 0) =>
             /\ report' = "Setup complete"
             /\ configFile'.exists
             /\ envFile'.exists
             /\ DotenvValue(envFile', apiKeyEnvVar(modelType)) = typedKey)]_vars

\* value.length >= 10 and value.startsWith(prefix)
HasFormat(value, prefix) == Len(value) >= 10 /\ IsPrefix(prefix, value)

\* the lines of a file, none when it does not exist
LinesOf(file) ==
  IF file.exists THEN {file.content[i] : i \in 1..Len(file.content)} ELSE {}

\* C23: every API key value that setup writes to .env has the format of
\* its provider: a line OPENAI_API_KEY=value that a call of setup adds to
\* the file has a value of at least 10 characters that starts with "sk-",
\* a line GOOGLE_API_KEY=value one of at least 10 characters that starts
\* with "AIza".
C23_WrittenKeysHaveFormat ==
  [][(mainPc = "menu" /\ envFile' # envFile) =>
       \A line \in LinesOf(envFile') \ LinesOf(envFile) :
         \A modelType \in ModelTypes :
           startsWith(line, apiKeyEnvVar(modelType)) =>
             HasFormat(SubSeq(line, 3, Len(line)), KeyPrefix(modelType))]_vars

\* the properties of a parsed config.json, those of its objects included
Properties(json) ==
  DOMAIN json
    \cup UNION {DOMAIN json[key] :
                  key \in DOMAIN json \cap {"modelUsed", "gemini", "openai"}}

\* the keys that .env holds
KeysOf(file) ==
  {SubSeq(line, 3, Len(line)) :
     line \in {l \in LinesOf(file) : \E name \in KeyNames : startsWith(l, name)}}

\* C24: the config.json that setup writes holds the provider, the model
\* type and the model name, in its three objects where it has them, and no
\* API key: it has no property apiKey, and its properties are modelType,
\* modelName and provider.
C24_ConfigJsonHoldsNoKey ==
  configFile.exists =>
    /\ "apiKey" \notin Properties(configFile.content)
    /\ Properties(configFile.content) \subseteq
         {"modelUsed", "gemini", "openai", "modelType", "modelName",
          "provider"}

\* setup saved a key to .env and the configuration to config.json
C24_Witness ==
  /\ release = "clone"
  /\ report = "Setup complete"
  /\ configFile.exists
  /\ sk \o Chars(7) \in KeysOf(envFile)
  /\ "modelName" \in Properties(configFile.content)

\* config.json and .env exist and are complete: config.json names the
\* provider and .env has a key in the variable of that provider
CredentialsConfigured ==
  /\ configFile.exists
  /\ envFile.exists
  /\ IF release = "simple"
     THEN loadCredentials(configFile, envFile) # null
     ELSE /\ "modelUsed" \in DOMAIN configFile.content
          /\ "modelType" \in DOMAIN configFile.content.modelUsed
          /\ configFile.content.modelUsed.modelType \in ModelTypes
          /\ ~Falsy(DotenvValue(envFile,
                      apiKeyEnvVar(configFile.content.modelUsed.modelType)))

\* C22: the run action does not get to the chat model without configured
\* credentials: chosen while config.json or .env is missing or incomplete,
\* it reports that setup is needed, builds no model and starts no
\* conversation; and the model is invoked only while the credentials are
\* configured.
C22_RunNeedsCredentials ==
  /\ [][((RunApplication \/ Run) /\ ~CredentialsConfigured) =>
          /\ report' \in {"No valid credentials found", "Try to setup again"}
          /\ mainPc' # "conversation"
          /\ model' = model]_vars
  /\ [][(modelCalls' > modelCalls) => CredentialsConfigured]_vars

\* ------------------------------------------------------------------ C31
\* the answers of a setup run one of which is a cancel or an empty answer
Unanswered(modelType, typedName, typedKey) ==
  \/ modelType = Cancel
  \/ typedName \in {Cancel, ""}
  \/ typedKey \in {CancelKey, <<>>}

\* C31: when the user cancels or gives no answer at a prompt of setup (the
\* provider, the model name or the API key), setup returns false, which
\* main reports, and neither config.json nor .env is written
C31_CancelWritesNothing ==
  [][\A modelType \in Selections :
       \A typedName \in NamePrompt(modelType) :
         \A typedKey \in KeyPrompt(modelType) :
           (/\ Unanswered(modelType, typedName, typedKey)
            /\ Setup(modelType, typedName, typedKey, 0))
             => /\ report' = "Setup failed or was cancelled"
                /\ envFile' = envFile
                /\ configFile' = configFile]_vars

\* ------------------------------------------------------------------ C33
\* the lines of a .env file that start with `${name}=`, and the others
KeyLines(file, name) ==
  SelectSeq(file.content, LAMBDA line : startsWith(line, name))

OtherLines(file, name) ==
  SelectSeq(file.content, LAMBDA line : ~startsWith(line, name))

\* C33: when setup (setup.ts 5-180) completes on an existing .env file,
\* the lines that are not lines of the key variable of the selected
\* provider are kept in their order, the file then has exactly one line of
\* that variable, which holds the key that was entered, and a second run
\* of setup with the same answers leaves the file as it is
C33_EnvUpdateKeepsOtherLines ==
  [][\A modelType \in ModelTypes :
       \A typedName \in NamePrompt(modelType) :
         \A typedKey \in KeyPrompt(modelType) :
           (/\ release = "simple"
            /\ envFile.exists
            /\ Setup(modelType, typedName, typedKey, 0)
            /\ report' = "Setup complete")
             => /\ OtherLines(envFile', apiKeyEnvVar(modelType))
                     = OtherLines(envFile, apiKeyEnvVar(modelType))
                /\ KeyLines(envFile', apiKeyEnvVar(modelType))
                     = <<Line(apiKeyEnvVar(modelType), typedKey)>>
                /\ setupSimple(modelType, typedName, typedKey, 0, envFile',
                               configFile', CONFIG_DEFAULT').envFile
                     = envFile']_vars

\* setup has replaced the key of the hand-made file by another one, after
\* the line it kept
C33_Witness ==
  /\ release = "simple"
  /\ report = "Setup complete"
  /\ envFile = File(<<HandMadeEnv[1],
                      Line(OPENAI_API_KEY, sk \o <<"=">> \o Chars(6))>>)

\* ------------------------------------------------------------------ C36
\* C36: the built-in default configuration is never modified: in the
\* releases that have one (setup.ts 290-492, part_007), whenever config.json
\* or .env is missing, loadCredentials returns the defaults of the source
\* text, used model OpenAI "gpt-4" and Gemini model "gemini-2.5-flash",
\* whatever calls of loadCredentials and whatever completed or cancelled
\* runs of setup came before in the process
C36_DefaultsAreNeverModified ==
  (/\ release \in MenuReleases
   /\ mainPc # "exited"
   /\ ~configFile.exists \/ ~envFile.exists)
    => /\ ModelUsed(Loaded).modelType = OPENAI
       /\ ModelUsed(Loaded).modelName = "gpt-4"
       /\ Loaded.gemini.modelName = "gemini-2.5-flash"
       /\ Loaded.openai.modelName = "gpt-4"

\* ------------------------------------------------------------------ C37
\* the configured model type is neither "openai" nor "gemini"
UnknownModelType == ModelUsed(Loaded).modelType \notin ModelTypes

C32_ExitLeavesEnvUnchanged ==
  /\ [][AskOverwrite("exit")
          => /\ mainPc' = "exited"
             /\ report' = "Setup cancelled. No changes made."
             /\ prompts' = 1
             /\ envFile' = envFile]_vars
  /\ [][(release = "script" /\ mainPc = "exited")
          => (prompts' = prompts /\ envFile' = envFile)]_vars

\* the script has ended on the answer "exit" with the hand-made file there
C32_Witness ==
  /\ release = "script"
  /\ mainPc = "exited"
  /\ report = "Setup cancelled. No changes made."
  /\ prompts = 1
  /\ envFile = File(HandMadeEnv)

\* ------------------------------------------------------------------ C35
\* what the credential file of a provider alone gives
FromFileOf(provider) ==
  IF provider = OPENAI
  THEN ReadLines(envOpenai.content, OPENAI_API_KEY, NoCredentials)
  ELSE ReadLines(envGemini.content, GOOGLE_API_KEY, NoCredentials)

\* C35: with the two credential files .env.openai and .env.gemini, what
\* loadCredentials returns is consistent: apiKey, modelType and modelName
\* are the values of the file of the returned provider, whatever the other
\* file contains
C35_CredentialsComeFromOneFile ==
  release = "twofile"
    => LET credentials == loadCredentialsTwoFile(envOpenai, envGemini)
       IN credentials # null
            => credentials
                 = WithProvider(FromFileOf(credentials.provider),
                                credentials.provider)

\* ------------------------------------------------------------------ C34
\* C34: after a successful run of setup, whatever runs came before it,
\* loadCredentials returns the provider, the model name and the API key
\* that were entered in that run
C34_LoadReturnsLastSetup ==
  [][\A modelType \in ModelTypes :
       \A typedName \in NamePromptPlain(modelType) :
         \A typedKey \in KeyPromptPlain(modelType) :
           (/\ SetupTwoFile(modelType, typedName, typedKey, 0)
            /\ report' = "Setup complete")
             => loadCredentialsTwoFile(envOpenai', envGemini')
                  = [modelType |-> modelType,
                     modelName |-> trim(typedName),
                     apiKey |-> typedKey,
                     provider |-> modelType]]_vars

====
